---- MODULE Spec2Model ----
(***************************************************************************)
(* Model of agent/agentssh/agentssh.go: the in-workspace SSH server.       *)
(*                                                                         *)
(* The server's tracker (listeners, conns, sessions, processes, closing,   *)
(* wg, all guarded by mu), Serve / handleConn / sessionHandler and the     *)
(* session runners, and Close, each as a thread whose position is a pc.    *)
(* Strings that the code takes apart (environment entries, the command's   *)
(* first word) are sequences of one-character strings; strings that the    *)
(* code only compares for equality are TLA+ strings.                       *)
(***************************************************************************)
EXTENDS Integers, Sequences, FiniteSets, TLC

(***************************************************************************)
(* Bounds of the model.                                                    *)
(***************************************************************************)
NumClosers == 2
NumListeners == 2
NumSessions == 2
MaxEnvLen == 2
MaxOutput == 2
MaxScriptParts == 4
MaxBanners == 2
MaxLines == 2
MaxEvents == 2
MaxCalls == 2

Closers == 1..NumClosers
Listeners == 1..NumListeners
Conns == {1}
Sessions == 1..NumSessions

(***************************************************************************)
(* Program constants.                                                      *)
(***************************************************************************)
MagicSessionErrorCode == 229
BlockedFileTransferErrorCode == 65
BlockedFileTransferErrorMessage == "File transfer has been disabled."

MagicSessionTypeEnvironmentVariable ==
    << "C","O","D","E","R","_","S","S","H","_",
       "S","E","S","S","I","O","N","_","T","Y","P","E" >>
ContainerEnvironmentVariable ==
    << "C","O","D","E","R","_","C","O","N","T","A","I","N","E","R" >>
ContainerUserEnvironmentVariable ==
    << "C","O","D","E","R","_","C","O","N","T","A","I","N","E","R","_",
       "U","S","E","R" >>

MagicSessionTypeUnknown == "unknown"
MagicSessionTypeSSH == "ssh"
MagicSessionTypeVSCode == "vscode"
MagicSessionTypeJetBrains == "jetbrains"

BlockedFileTransferCommands ==
    { <<"n","c">>, <<"r","s","y","n","c">>, <<"s","c","p">>, <<"s","f","t","p">> }

(***************************************************************************)
(* strings: HasPrefix, TrimPrefix, ToLower on sequences of characters.     *)
(***************************************************************************)
UpperChars ==
    << "A","B","C","D","E","F","G","H","I","J","K","L","M",
       "N","O","P","Q","R","S","T","U","V","W","X","Y","Z" >>
LowerChars ==
    << "a","b","c","d","e","f","g","h","i","j","k","l","m",
       "n","o","p","q","r","s","t","u","v","w","x","y","z" >>

HasPrefix(s, p) ==
    Len(s) >= Len(p) /\ SubSeq(s, 1, Len(p)) = p

TrimPrefix(s, p) ==
    IF HasPrefix(s, p) THEN SubSeq(s, Len(p) + 1, Len(s)) ELSE s

ToLowerChar(c) ==
    IF \E i \in 1..Len(UpperChars) : UpperChars[i] = c
    THEN LowerChars[CHOOSE i \in 1..Len(UpperChars) : UpperChars[i] = c]
    ELSE c

ToLower(s) == [i \in 1..Len(s) |-> ToLowerChar(s[i])]

\* The readable form of a lower-case word the code compares a string with.
Chars(w) ==
    CASE w = "vscode" -> <<"v","s","c","o","d","e">>
      [] w = "jetbrains" -> <<"j","e","t","b","r","a","i","n","s">>
      [] w = "ssh" -> <<"s","s","h">>
      [] w = "unknown" -> <<"u","n","k","n","o","w","n">>
      [] OTHER -> <<>>

\* slices.DeleteFunc with the predicate "has one of these prefixes": the
\* entries of env that have none of them, in order.
DeleteFunc(env, prefixes) ==
    SelectSeq(env, LAMBDA kv : ~\E p \in prefixes : HasPrefix(kv, p))

\* The value the loop of extractMagicSessionType leaves in rawType.
RECURSIVE LastRawType(_, _)
LastRawType(env, rawType) ==
    IF env = <<>> THEN rawType
    ELSE IF ~HasPrefix(Head(env), MagicSessionTypeEnvironmentVariable)
         THEN LastRawType(Tail(env), rawType)
         ELSE LastRawType(Tail(env),
                  TrimPrefix(Head(env), MagicSessionTypeEnvironmentVariable \o <<"=">>))

MagicTypeOf(rawType) ==
    LET lower == ToLower(rawType) IN
    CASE lower = Chars(MagicSessionTypeVSCode) -> MagicSessionTypeVSCode
      [] lower = Chars(MagicSessionTypeJetBrains) -> MagicSessionTypeJetBrains
      [] lower = <<>> \/ lower = Chars(MagicSessionTypeSSH) -> MagicSessionTypeSSH
      [] OTHER -> MagicSessionTypeUnknown

MagicSessionTypePrefixes ==
    { MagicSessionTypeEnvironmentVariable \o <<"=">> }

extractMagicSessionType(env) ==
    LET rawType == LastRawType(env, <<>>) IN
    [ magicType |-> MagicTypeOf(rawType),
      rawType |-> rawType,
      filteredEnv |-> DeleteFunc(env, MagicSessionTypePrefixes) ]

\* The values the loop of extractContainerInfo leaves in container and
\* containerUser.
RECURSIVE LastContainer(_, _, _)
LastContainer(env, container, containerUser) ==
    IF env = <<>> THEN [container |-> container, containerUser |-> containerUser]
    ELSE LET kv == Head(env)
             c == IF HasPrefix(kv, ContainerEnvironmentVariable \o <<"=">>)
                  THEN TrimPrefix(kv, ContainerEnvironmentVariable \o <<"=">>)
                  ELSE container
             u == IF HasPrefix(kv, ContainerUserEnvironmentVariable \o <<"=">>)
                  THEN TrimPrefix(kv, ContainerUserEnvironmentVariable \o <<"=">>)
                  ELSE containerUser
         IN LastContainer(Tail(env), c, u)

\* A filter that forgets the container user.
ContainerPrefixesNoUser ==
    { ContainerEnvironmentVariable \o <<"=">> }

ContainerPrefixes ==
    { ContainerEnvironmentVariable \o <<"=">>,
      ContainerUserEnvironmentVariable \o <<"=">> }

extractContainerInfo(env) ==
    LET last == LastContainer(env, <<>>, <<>>) IN
    [ container |-> last.container,
      containerUser |-> last.containerUser,
      filteredEnv |-> DeleteFunc(env, ContainerPrefixes) ]

(***************************************************************************)
(* filepath.Base on a slash-separated path.                                *)
(***************************************************************************)
RECURSIVE StripTrailingSlashes(_)
StripTrailingSlashes(p) ==
    IF Len(p) > 0 /\ p[Len(p)] = "/"
    THEN StripTrailingSlashes(SubSeq(p, 1, Len(p) - 1))
    ELSE p

RECURSIVE AfterLastSlash(_)
AfterLastSlash(p) ==
    IF \E i \in 1..Len(p) : p[i] = "/"
    THEN AfterLastSlash(Tail(p))
    ELSE p

FilepathBase(path) ==
    IF path = <<>> THEN <<".">>
    ELSE LET stripped == StripTrailingSlashes(path) IN
         IF stripped = <<>> THEN <<"/">> ELSE AfterLastSlash(stripped)

(***************************************************************************)
(* CommandEnv and CreateCommand, for text without quotes or backslashes.   *)
(***************************************************************************)
\* strings.TrimSpace
TrimSpace(s) ==
    LET White == {" ", "\n", "\t"}
        Black == { i \in 1..Len(s) : s[i] \notin White }
    IN IF Black = {} THEN <<>>
       ELSE SubSeq(s, CHOOSE i \in Black : \A j \in Black : i <= j,
                      CHOOSE i \in Black : \A j \in Black : i >= j)

\* strings.SplitN(s, "\n", 2)[0]
FirstLine(s) ==
    LET Breaks == { i \in 1..Len(s) : s[i] = "\n" }
    IN IF Breaks = {} THEN s
       ELSE SubSeq(s, 1, (CHOOSE i \in Breaks : \A j \in Breaks : i <= j) - 1)

\* The words of s: what shellquote.Split and the SSH library's Command()
\* both give for text without quotes or backslashes.
RECURSIVE Fields(_)
Fields(s) ==
    LET White == {" ", "\n", "\t"}
        Black == { i \in 1..Len(s) : s[i] \notin White }
    IN IF Black = {} THEN <<>>
       ELSE LET b == CHOOSE i \in Black : \A j \in Black : i <= j
                Ends == { i \in b..Len(s) : i = Len(s) \/ s[i + 1] \in White }
                e == CHOOSE i \in Ends : \A j \in Ends : i <= j
            IN <<SubSeq(s, b, e)>> \o Fields(SubSeq(s, e + 1, Len(s)))

\* runtime.GOOS of the build the model follows.
GOOS == "linux"

\* What the EnvInfoer says of the user: ei.User().Username, ei.Shell(username),
\* ei.Environ().
User ==
    [ Username |-> <<"u">>,
      Shell |-> <<"/","b","i","n","/","s","h">>,
      Environ |-> << <<"H","O","M","E","=","/">> >> ]

\* config.UpdateEnv, one of two transforms (its error is a failure of
\* CommandEnv as a whole).
UpdateEnv(cfg, env) ==
    IF cfg.UpdateEnv = "same" THEN env
    ELSE <<<<"C","O","D","E","R","=","1">>>> \o SelectSeq(env, LAMBDA kv : ~HasPrefix(kv, <<"H","O","M","E","=">>))

\* Lines 854-895, when nothing fails.
CommandEnv(cfg, addEnv) ==
    UpdateEnv(cfg, User.Environ \o addEnv
                     \o << <<"U","S","E","R","=">> \o User.Username,
                           <<"L","O","G","N","A","M","E","=">> \o User.Username,
                           <<"S","H","E","L","L","=">> \o User.Shell >>)

\* Lines 976-979: SSH_CLIENT and SSH_CONNECTION with their placeholder values.
SSHEnv ==
    << <<"S","S","H","_","C","L","I","E","N","T","=">>
         \o <<"0",".","0",".","0",".","0"," ","0"," ","0">>,
       <<"S","S","H","_","C","O","N","N","E","C","T","I","O","N","=">>
         \o <<"0",".","0",".","0",".","0"," ","0"," ","0",".","0",".","0",".","0"," ","0">> >>

\* Lines 904-982, after CommandEnv succeeded: the name and the arguments
\* handed to ei.ModifyCommand, and cmd.Env. words[0] of no words (line 937)
\* is a run-time panic.
CreateCommand(cfg, goos, script, addEnv) ==
    LET caller == IF goos = "windows" THEN <<"/","c">> ELSE <<"-","c">>
        trimmed == TrimSpace(script)
        shebang == HasPrefix(trimmed, <<"#","!">>)
        words == Fields(TrimPrefix(TrimSpace(FirstLine(trimmed)), <<"#","!">>))
    IN IF shebang /\ words = <<>>
       THEN [st |-> "panic", argv |-> <<>>, env |-> <<>>]
       ELSE [st |-> "ok",
             argv |-> IF Len(script) = 0
                      THEN <<User.Shell>> \o (IF goos # "windows" THEN << <<"-","l">> >> ELSE <<>>)
                      ELSE IF shebang THEN words \o <<caller, script>>
                      ELSE <<User.Shell, caller, script>>,
             env |-> CommandEnv(cfg, addEnv) \o SSHEnv]

(***************************************************************************)
(* State.                                                                  *)
(*   mu          0 when Server.mu is free, else the Close call holding it  *)
(*               (every other critical section is one atomic step)         *)
(*   closing     0 for nil, else the channel made by that Close call       *)
(*   chanClosed  the closing channels that have been closed                *)
(*   close, serve, conn, sess, proc: one record per thread / process       *)
(***************************************************************************)
VARIABLES mu, hostSigners, listeners, conns, sessions, processes, closing,
          chanClosed, wg, connCountVSCode, connCountSSHSession, config,
          close, serve, conn, sess, proc

tracker == <<listeners, conns, sessions, processes, closing, chanClosed, wg>>
counters == <<connCountVSCode, connCountSSHSession>>
vars == <<mu, hostSigners, listeners, conns, sessions, processes, closing,
          chanClosed, wg, connCountVSCode, connCountSSHSession, config,
          close, serve, conn, sess, proc>>

\* The file system the server was made with, as far as the PTY runner looks
\* at it: $HOME/.hushlogin, whether the home directory can be found, and the
\* MOTD file.
NoFiles ==
    [Hushlogin |-> FALSE, HomeDirErr |-> FALSE, MOTD |-> [st |-> "absent", text |-> <<>>]]

Configs ==
    [BlockFileTransfer : BOOLEAN, ExperimentalContainers : BOOLEAN, UpdateEnv : {"same"},
     AnnouncementBanners : {<<>>}, MOTDFile : {<<>>}, fs : {NoFiles}]

\* The task of a PTY session that serves client signals and window changes
\* (lines 722-755), before it is started: sigs and win are its two channel
\* variables ("retired" for nil), sigsCh and winCh the channels' buffers.
NoFanIn ==
    [ pc |-> "none", sigs |-> "live", win |-> "live",
      sigsCh |-> <<>>, sigsClosed |-> FALSE, winCh |-> <<>>, winClosed |-> FALSE,
      sent |-> 0, sigOut |-> <<>>, winOut |-> <<>>, sigIn |-> <<>>, winIn |-> <<>>,
      resized |-> <<>> ]

NewSession ==
    [ pc |-> "idle", conn |-> 0, environ |-> <<>>, env |-> <<>>, subsystem |-> "",
      rawCommand |-> <<>>, command |-> <<>>, cmd |-> [st |-> "none", argv |-> <<>>, env |-> <<>>],
      pty |-> FALSE, x11 |-> FALSE,
      magicType |-> MagicSessionTypeSSH, container |-> <<>>,
      ctxDone |-> FALSE, admitted |-> FALSE, wrapped |-> FALSE, exitOnce |-> FALSE, code |-> 0,
      reason |-> "", err |-> "nil", exitErr |-> 0, started |-> {}, copied |-> 0,
      greetErrs |-> {}, fan |-> NoFanIn,
      log |-> <<>> ]

NewProcess ==
    [ st |-> "none", code |-> 0, cancel |-> FALSE, hup |-> {}, out |-> 0, signals |-> <<>> ]

\* A Close call that Shutdown did not make: no select, no context, no channel.
NoShutdown == [pc |-> "none", ctxDone |-> FALSE, ch |-> "empty", err |-> "none", ret |-> "none"]

\* NewServer: empty tracker, no host key, counters at zero.
InitWith(cfgs) ==
    /\ mu = 0
    /\ hostSigners = 0
    /\ listeners = {} /\ conns = {} /\ sessions = {} /\ processes = {}
    /\ closing = 0
    /\ chanClosed = {}
    /\ wg = 0
    /\ connCountVSCode = 0 /\ connCountSSHSession = 0
    /\ config \in cfgs
    /\ close = [c \in Closers |->
                  [pc |-> "idle", todo |-> {}, waitOn |-> 0, ret |-> "none", did |-> <<>>,
                   shutdown |-> NoShutdown]]
    /\ serve = [l \in Listeners |->
                  [pc |-> "idle", waitOn |-> 0, closed |-> FALSE, ret |-> "none"]]
    /\ conn = [c \in Conns |-> [pc |-> "idle", l |-> 0, closed |-> FALSE, admitted |-> FALSE]]
    /\ sess = [s \in Sessions |-> NewSession]
    /\ proc = [s \in Sessions |-> NewProcess]

Init == InitWith(Configs)

(***************************************************************************)
(* The tracker: trackListener, trackConn, trackSession, trackProcess.      *)
(* Each is the body run under mu; Add gives the new tracker and ok.        *)
(***************************************************************************)
\* trackConn that looks at closing only, not at the listener.
TrackConnOkAnyListener(l) ==
    ~(closing # 0)

\* trackConn(l, c, true)
TrackConnOk(l) ==
    ~(closing # 0 \/ l \notin listeners)

\* trackSession that admits a session whatever closing is.
TrackSessionOkAlways ==
    TRUE

\* trackSession(ss, true)
TrackSessionOk ==
    ~(closing # 0)

\* trackProcess(p, true)
TrackProcessOk ==
    ~(closing # 0)

\* trackListener(l, true) may insert only once the loop on closing ends.
TrackListenerReady ==
    closing = 0

(***************************************************************************)
(* UpdateHostSigner                                                        *)
(***************************************************************************)
UpdateHostSigner ==
    /\ mu = 0
    /\ hostSigners = 0
    /\ hostSigners' = 1
    /\ UNCHANGED <<mu, tracker, counters, config, close, serve, conn, sess, proc>>

(***************************************************************************)
(* Serve(l)                                                                *)
(***************************************************************************)
\* Lines 986-1000: the host key check under RLock.
ServeStart(l) ==
    /\ serve[l].pc = "idle"
    /\ mu = 0
    /\ IF hostSigners = 0
       THEN serve' = [serve EXCEPT ![l].pc = "done", ![l].ret = "no host keys set"]
       ELSE serve' = [serve EXCEPT ![l].pc = "track"]
    /\ UNCHANGED <<mu, hostSigners, tracker, counters, config, close, conn, sess, proc>>

\* trackListener(l, true): park on closing, or register.
TrackListenerAdd(l) ==
    /\ serve[l].pc = "track"
    /\ mu = 0
    /\ IF ~TrackListenerReady
       THEN /\ serve' = [serve EXCEPT ![l].pc = "parked", ![l].waitOn = closing]
            /\ UNCHANGED <<wg, listeners>>
       ELSE /\ wg' = wg + 1
            /\ listeners' = listeners \cup {l}
            /\ serve' = [serve EXCEPT ![l].pc = "accept"]
    /\ UNCHANGED <<mu, hostSigners, conns, sessions, processes, closing, chanClosed,
                   counters, config, close, conn, sess, proc>>

\* A trackListener that registers as soon as the channel it waited on is
\* closed, without looking at closing again.
ListenerUnparkNoRecheck(l) ==
    /\ serve[l].pc = "parked"
    /\ serve[l].waitOn \in chanClosed
    /\ mu = 0
    /\ wg' = wg + 1
    /\ listeners' = listeners \cup {l}
    /\ serve' = [serve EXCEPT ![l].pc = "accept", ![l].waitOn = 0]
    /\ UNCHANGED <<mu, hostSigners, conns, sessions, processes, closing, chanClosed,
                   counters, config, close, conn, sess, proc>>

\* <-closing returns once that channel is closed; the loop then re-checks.
ListenerUnpark(l) ==
    /\ serve[l].pc = "parked"
    /\ serve[l].waitOn \in chanClosed
    /\ serve' = [serve EXCEPT ![l].pc = "track", ![l].waitOn = 0]
    /\ UNCHANGED <<mu, hostSigners, tracker, counters, config, close, conn, sess, proc>>

\* l.Accept() returns a connection: go s.handleConn(l, conn).
Accept(l, c) ==
    /\ serve[l].pc = "accept"
    /\ ~serve[l].closed
    /\ conn[c].pc = "idle"
    /\ conn' = [conn EXCEPT ![c].pc = "track", ![c].l = l]
    /\ UNCHANGED <<mu, hostSigners, tracker, counters, config, close, serve, sess, proc>>

\* The listener fails by itself (a network error).
ListenerBreaks(l) ==
    /\ serve[l].pc = "accept"
    /\ ~serve[l].closed
    /\ serve' = [serve EXCEPT ![l].closed = TRUE]
    /\ UNCHANGED <<mu, hostSigners, tracker, counters, config, close, conn, sess, proc>>

\* A Serve that returns the Accept error without its deferred calls.
AcceptErrorNoDefer(l) ==
    /\ serve[l].pc = "accept"
    /\ serve[l].closed
    /\ serve' = [serve EXCEPT ![l].pc = "done", ![l].ret = "accept error"]
    /\ UNCHANGED <<mu, hostSigners, tracker, counters, config, close, conn, sess, proc>>

\* l.Accept() fails once the listener is closed or broken: Serve returns err.
AcceptError(l) ==
    /\ serve[l].pc = "accept"
    /\ serve[l].closed
    /\ serve' = [serve EXCEPT ![l].pc = "untrack", ![l].ret = "accept error"]
    /\ UNCHANGED <<mu, hostSigners, tracker, counters, config, close, conn, sess, proc>>

\* A Serve whose deferred removal forgets the wait group.
TrackListenerRemoveNoDone(l) ==
    /\ serve[l].pc = "untrack"
    /\ mu = 0
    /\ listeners' = listeners \ {l}
    /\ serve' = [serve EXCEPT ![l].pc = "done", ![l].closed = TRUE]
    /\ UNCHANGED <<mu, hostSigners, conns, sessions, processes, closing, chanClosed, wg,
                   counters, config, close, conn, sess, proc>>

\* The deferred trackListener(l, false), then the deferred l.Close().
TrackListenerRemove(l) ==
    /\ serve[l].pc = "untrack"
    /\ mu = 0
    /\ wg' = wg - 1
    /\ listeners' = listeners \ {l}
    /\ serve' = [serve EXCEPT ![l].pc = "done", ![l].closed = TRUE]
    /\ UNCHANGED <<mu, hostSigners, conns, sessions, processes, closing, chanClosed,
                   counters, config, close, conn, sess, proc>>

(***************************************************************************)
(* handleConn(l, c)                                                        *)
(***************************************************************************)
\* Closing a connection ends the context of the sessions it carries.
CancelSessionsOf(ss, c) ==
    [s \in DOMAIN ss |->
        IF ss[s].conn = c /\ ss[s].pc # "idle"
        THEN [ss[s] EXCEPT !.ctxDone = TRUE] ELSE ss[s]]

\* trackConn(l, c, true); on failure the deferred c.Close() and return.
TrackConnAdd(c) ==
    /\ conn[c].pc = "track"
    /\ mu = 0
    /\ IF TrackConnOk(conn[c].l)
       THEN /\ wg' = wg + 1
            /\ conns' = conns \cup {c}
            /\ conn' = [conn EXCEPT ![c].pc = "handle", ![c].admitted = TRUE]
       ELSE /\ conn' = [conn EXCEPT ![c].pc = "done", ![c].closed = TRUE]
            /\ UNCHANGED <<wg, conns>>
    /\ UNCHANGED <<mu, hostSigners, listeners, sessions, processes, closing, chanClosed,
                   counters, config, close, serve, sess, proc>>

\* The client closes the connection.
ClientDisconnects(c) ==
    /\ conn[c].pc = "handle"
    /\ ~conn[c].closed
    /\ conn' = [conn EXCEPT ![c].closed = TRUE]
    /\ sess' = CancelSessionsOf(sess, c)
    /\ UNCHANGED <<mu, hostSigners, tracker, counters, config, close, serve, proc>>

\* s.srv.HandleConn(c) returns once the connection is closed.
HandleConnReturn(c) ==
    /\ conn[c].pc = "handle"
    /\ conn[c].closed
    /\ conn' = [conn EXCEPT ![c].pc = "untrack"]
    /\ UNCHANGED <<mu, hostSigners, tracker, counters, config, close, serve, sess, proc>>

\* The deferred trackConn(l, c, false), then the deferred c.Close().
TrackConnRemove(c) ==
    /\ conn[c].pc = "untrack"
    /\ mu = 0
    /\ wg' = wg - 1
    /\ conns' = conns \ {c}
    /\ conn' = [conn EXCEPT ![c].pc = "done", ![c].closed = TRUE]
    /\ UNCHANGED <<mu, hostSigners, listeners, sessions, processes, closing, chanClosed,
                   counters, config, close, serve, sess, proc>>

(***************************************************************************)
(* Close()                                                                 *)
(***************************************************************************)
\* The order of the closer's steps; each loop has the set it ranges over.
ClosePhases == <<"listeners", "sessions", "conns", "processes", "srv", "unlock",
                 "x11", "wait", "clear", "done">>

PhaseRank(ph) == CHOOSE i \in 1..Len(ClosePhases) : ClosePhases[i] = ph

NextPhase(ph) == ClosePhases[PhaseRank(ph) + 1]

PhaseItems(ph) ==
    CASE ph = "listeners" -> listeners
      [] ph = "sessions" -> sessions
      [] ph = "conns" -> conns
      [] ph = "processes" -> processes
      [] OTHER -> {}

Did(c, step, item) ==
    [close EXCEPT ![c].did = Append(@, <<step, item>>)]

\* Lines 1131-1141: the guard against a Close in progress, else install closing.
CloseBegin(c) ==
    /\ close[c].pc = "idle"
    /\ mu = 0
    /\ IF closing # 0
       THEN /\ close' = [close EXCEPT ![c].pc = "blocked", ![c].waitOn = closing]
            /\ UNCHANGED <<mu, closing>>
       ELSE /\ closing' = c
            /\ mu' = c
            /\ close' = [close EXCEPT ![c].pc = "listeners", ![c].todo = listeners]
    /\ UNCHANGED <<hostSigners, listeners, conns, sessions, processes, chanClosed, wg,
                   counters, config, serve, conn, sess, proc>>

\* The early return without the receive from closing.
CloseBlockedReturnNoWait(c) ==
    /\ close[c].pc = "blocked"
    /\ close' = [close EXCEPT ![c].pc = "done", ![c].ret = "server is closed"]
    /\ UNCHANGED <<mu, hostSigners, tracker, counters, config, serve, conn, sess, proc>>

\* Lines 1138-1139: <-closing, then return "server is closed".
CloseBlockedReturn(c) ==
    /\ close[c].pc = "blocked"
    /\ close[c].waitOn \in chanClosed
    /\ close' = [close EXCEPT ![c].pc = "done", ![c].ret = "server is closed"]
    /\ UNCHANGED <<mu, hostSigners, tracker, counters, config, serve, conn, sess, proc>>

\* A loop of Close that may stop before the end of its set.
CloseAdvanceEarly(c) ==
    /\ close[c].pc \in {"listeners", "sessions", "conns", "processes"}
    /\ close' = [close EXCEPT ![c].pc = NextPhase(@),
                              ![c].todo = PhaseItems(NextPhase(close[c].pc))]
    /\ UNCHANGED <<mu, hostSigners, tracker, counters, config, serve, conn, sess, proc>>

\* A loop of Close has run over its whole set: on to the next step.
CloseAdvance(c) ==
    /\ close[c].pc \in {"listeners", "sessions", "conns", "processes"}
    /\ close[c].todo = {}
    /\ close' = [close EXCEPT ![c].pc = NextPhase(@),
                              ![c].todo = PhaseItems(NextPhase(close[c].pc))]
    /\ UNCHANGED <<mu, hostSigners, tracker, counters, config, serve, conn, sess, proc>>

\* Lines 1149-1151: l.Close()
CloseListener(c, l) ==
    /\ close[c].pc = "listeners"
    /\ l \in close[c].todo
    /\ serve' = [serve EXCEPT ![l].closed = TRUE]
    /\ close' = [Did(c, "listeners", l) EXCEPT ![c].todo = @ \ {l}]
    /\ UNCHANGED <<mu, hostSigners, tracker, counters, config, conn, sess, proc>>

\* Lines 1156-1161: ss.Close() on the tracked (unwrapped) session.
CloseSession(c, s) ==
    /\ close[c].pc = "sessions"
    /\ s \in close[c].todo
    /\ sess' = [sess EXCEPT ![s].ctxDone = TRUE]
    /\ close' = [Did(c, "sessions", s) EXCEPT ![c].todo = @ \ {s}]
    /\ UNCHANGED <<mu, hostSigners, tracker, counters, config, serve, conn, proc>>

\* Lines 1163-1165: c.Close()
CloseConn(c, cn) ==
    /\ close[c].pc = "conns"
    /\ cn \in close[c].todo
    /\ conn' = [conn EXCEPT ![cn].closed = TRUE]
    /\ sess' = CancelSessionsOf(sess, cn)
    /\ close' = [Did(c, "conns", cn) EXCEPT ![c].todo = @ \ {cn}]
    /\ UNCHANGED <<mu, hostSigners, tracker, counters, config, serve, proc>>

\* cmdCancel(logger, p): the terminate signal (SIGHUP to the process group).
cmdCancel(pr, p, by) ==
    [pr EXCEPT ![p].hup = @ \cup {by}]

\* Lines 1167-1169
CloseProcess(c, p) ==
    /\ close[c].pc = "processes"
    /\ p \in close[c].todo
    /\ proc' = cmdCancel(proc, p, "Close")
    /\ close' = [Did(c, "processes", p) EXCEPT ![c].todo = @ \ {p}]
    /\ UNCHANGED <<mu, hostSigners, tracker, counters, config, serve, conn, sess>>

\* Line 1172: err := s.srv.Close()
CloseSrv(c, err) ==
    /\ close[c].pc = "srv"
    /\ close' = [Did(c, "srv", 0) EXCEPT ![c].pc = NextPhase(@), ![c].ret = err]
    /\ UNCHANGED <<mu, hostSigners, tracker, counters, config, serve, conn, sess, proc>>

\* A Close that goes on to the wait without releasing the lock.
CloseUnlockKeeps(c) ==
    /\ close[c].pc = "unlock"
    /\ mu = c
    /\ close' = [close EXCEPT ![c].pc = NextPhase(@)]
    /\ UNCHANGED <<mu, hostSigners, tracker, counters, config, serve, conn, sess, proc>>

\* Line 1174: s.mu.Unlock()
CloseUnlock(c) ==
    /\ close[c].pc = "unlock"
    /\ mu = c
    /\ mu' = 0
    /\ close' = [close EXCEPT ![c].pc = NextPhase(@)]
    /\ UNCHANGED <<hostSigners, tracker, counters, config, serve, conn, sess, proc>>

\* Line 1177: s.x11Forwarder.Close()
CloseX11(c) ==
    /\ close[c].pc = "x11"
    /\ close' = [Did(c, "x11", 0) EXCEPT ![c].pc = NextPhase(@)]
    /\ UNCHANGED <<mu, hostSigners, tracker, counters, config, serve, conn, sess, proc>>

\* A Close that goes on without waiting for the wait group.
CloseWaitNoWait(c) ==
    /\ close[c].pc = "wait"
    /\ close' = [Did(c, "wait", 0) EXCEPT ![c].pc = NextPhase(@)]
    /\ UNCHANGED <<mu, hostSigners, tracker, counters, config, serve, conn, sess, proc>>

\* Line 1180: s.wg.Wait() returns when the counter is zero.
CloseWait(c) ==
    /\ close[c].pc = "wait"
    /\ wg = 0
    /\ close' = [Did(c, "wait", 0) EXCEPT ![c].pc = NextPhase(@)]
    /\ UNCHANGED <<mu, hostSigners, tracker, counters, config, serve, conn, sess, proc>>

\* A Close that resets closing without closing the channel.
CloseClearNoSignal(c) ==
    /\ close[c].pc = "clear"
    /\ mu = 0
    /\ closing' = 0
    /\ close' = [Did(c, "clear", 0) EXCEPT ![c].pc = NextPhase(@)]
    /\ UNCHANGED <<mu, hostSigners, listeners, conns, sessions, processes, chanClosed, wg,
                   counters, config, serve, conn, sess, proc>>

\* Lines 1182-1189: close(s.closing); s.closing = nil; return err.
CloseClear(c) ==
    /\ close[c].pc = "clear"
    /\ mu = 0
    /\ chanClosed' = chanClosed \cup {closing}
    /\ closing' = 0
    /\ close' = [Did(c, "clear", 0) EXCEPT ![c].pc = NextPhase(@)]
    /\ UNCHANGED <<mu, hostSigners, listeners, conns, sessions, processes, wg,
                   counters, config, serve, conn, sess, proc>>

(***************************************************************************)
(* Shutdown(ctx): close[c].shutdown is the call whose goroutine runs the   *)
(* Close call c.                                                           *)
(***************************************************************************)
\* Lines 1197-1202: ch := make(chan error, 1) and the goroutine that will
\* call Close; ctx may be cancelled already.
ShutdownStart(c, cancelled) ==
    /\ close[c].pc = "idle"
    /\ close[c].shutdown.pc = "none"
    /\ close' = [close EXCEPT ![c].shutdown.pc = "select", ![c].shutdown.ctxDone = cancelled]
    /\ UNCHANGED <<mu, hostSigners, tracker, counters, config, serve, conn, sess, proc>>

\* The caller's context is cancelled or times out.
ShutdownCtxDone(c) ==
    /\ close[c].shutdown.pc \in {"select", "recheck"}
    /\ ~close[c].shutdown.ctxDone
    /\ close' = [close EXCEPT ![c].shutdown.ctxDone = TRUE]
    /\ UNCHANGED <<mu, hostSigners, tracker, counters, config, serve, conn, sess, proc>>

\* Line 1201: ch <- s.Close(), when Close has returned; ch has room for it.
ShutdownSend(c) ==
    /\ close[c].shutdown.pc # "none"
    /\ close[c].pc = "done"
    /\ close[c].shutdown.ch = "empty"
    /\ close' = [close EXCEPT ![c].shutdown.ch = close[c].ret]
    /\ UNCHANGED <<mu, hostSigners, tracker, counters, config, serve, conn, sess, proc>>

\* Lines 1204-1208: the select takes a case that is ready.
ShutdownSelect(c, viaCtx) ==
    /\ close[c].shutdown.pc = "select"
    /\ IF viaCtx
       THEN /\ close[c].shutdown.ctxDone
            /\ close' = [close EXCEPT ![c].shutdown.pc = "recheck", ![c].shutdown.err = "ctx"]
       ELSE /\ close[c].shutdown.ch \notin {"empty", "received"}
            /\ close' = [close EXCEPT ![c].shutdown.pc = "recheck",
                                      ![c].shutdown.err = close[c].shutdown.ch,
                                      ![c].shutdown.ch = "received"]
    /\ UNCHANGED <<mu, hostSigners, tracker, counters, config, serve, conn, sess, proc>>

\* The return without the second look at the context.
ShutdownReturnNoRecheck(c) ==
    /\ close[c].shutdown.pc = "recheck"
    /\ LET err == close[c].shutdown.err
       IN close' = [close EXCEPT ![c].shutdown.pc = "returned",
                                 ![c].shutdown.ret =
                                     IF err # "nil" THEN "close server: " \o err ELSE "nil"]
    /\ UNCHANGED <<mu, hostSigners, tracker, counters, config, serve, conn, sess, proc>>

\* Lines 1209-1216: the context's error takes precedence; an error is wrapped.
ShutdownReturn(c) ==
    /\ close[c].shutdown.pc = "recheck"
    /\ LET err == IF close[c].shutdown.ctxDone THEN "ctx" ELSE close[c].shutdown.err
       IN close' = [close EXCEPT ![c].shutdown.pc = "returned",
                                 ![c].shutdown.ret =
                                     IF err # "nil" THEN "close server: " \o err ELSE "nil"]
    /\ UNCHANGED <<mu, hostSigners, tracker, counters, config, serve, conn, sess, proc>>

(***************************************************************************)
(* The sessions handed to the dispatcher: what the client asked for.       *)
(***************************************************************************)
EnvVSCode == << MagicSessionTypeEnvironmentVariable \o <<"=","v","s","c","o","d","e">> >>
EnvJetBrains == << MagicSessionTypeEnvironmentVariable \o <<"=","J","e","t","B","r","a","i","n","s">> >>
EnvBogus == << MagicSessionTypeEnvironmentVariable \o <<"=","z","e","d">> >>
EnvContainer == << ContainerEnvironmentVariable \o <<"=","c","1">> >>

CmdShell == <<>>
CmdLs == <<"l","s">>
CmdScp == <<"/","u","s","r","/","b","i","n","/","s","c","p"," ","-","t">>

SessionCommands == { CmdShell, CmdLs, CmdScp }
Subsystems == { "", "sftp", "other" }

\* The exit codes a process ends with by itself; -1 is death by signal.
ProcExitCodes == { 0, 65 }

(***************************************************************************)
(* sessionCloseTracker and the session's writes, as changes of its record. *)
(***************************************************************************)
\* A tracker that stores the code of every call.
trackLast(r, code) ==
    [r EXCEPT !.exitOnce = TRUE, !.code = code]

\* sessionCloseTracker.track: exitOnce.Do(code.Store(code))
track(r, code) ==
    IF r.exitOnce THEN r ELSE [r EXCEPT !.exitOnce = TRUE, !.code = code]

\* session.Exit(code): through the close tracker when the session is wrapped.
Exit(r, code) ==
    LET t == IF r.wrapped THEN track(r, code) ELSE r
    IN [t EXCEPT !.log = Append(@, <<"exit", code>>)]

\* session.Write(msg)
Write(r, msg) ==
    [r EXCEPT !.log = Append(@, <<"write", msg>>)]

\* closeCause(reason): sets reason only when the session is reported.
closeCause(r, reason) ==
    IF r.wrapped THEN [r EXCEPT !.reason = reason] ELSE r

\* The entries a client can ask for: the library hands each one over as
\* "name=value".
EnvEntries ==
    { MagicSessionTypeEnvironmentVariable \o <<"=","v","s","c","o","d","e">>,
      MagicSessionTypeEnvironmentVariable \o <<"=","J","e","t","B","r","a","i","n","s">>,
      MagicSessionTypeEnvironmentVariable \o <<"=","S","S","H">>,
      MagicSessionTypeEnvironmentVariable \o <<"=">>,
      MagicSessionTypeEnvironmentVariable \o <<"=","z","e","d">>,
      MagicSessionTypeEnvironmentVariable \o <<"_","X","=","v","s","c","o","d","e">>,
      ContainerEnvironmentVariable \o <<"=","c","1">>,
      ContainerUserEnvironmentVariable \o <<"=","u">>,
      <<"P","A","T","H","=","/","b","i","n">> }

\* session.Environ(): the entries in the order the client sent them.
Environs ==
    UNION { [1..n -> EnvEntries] : n \in 0..MaxEnvLen }

\* A dispatcher that reports the sessions of every type.
reportSessionAny(r) ==
    TRUE

\* Lines 405-420: jetbrains sessions are not reported.
reportSession(r) ==
    r.magicType # MagicSessionTypeJetBrains

(***************************************************************************)
(* fileTransferBlocked                                                     *)
(***************************************************************************)
\* The guard that compares the first word itself, not its base name.
fileTransferBlockedNoBase(cfg, r) ==
    IF ~cfg.BlockFileTransfer THEN FALSE
    ELSE IF r.subsystem = "sftp" THEN TRUE
    ELSE IF Len(r.command) = 0 THEN FALSE
    ELSE r.command[1] \in BlockedFileTransferCommands

\* Lines 536-560
fileTransferBlocked(cfg, r) ==
    IF ~cfg.BlockFileTransfer THEN FALSE
    ELSE IF r.subsystem = "sftp" THEN TRUE
    ELSE IF Len(r.command) = 0 THEN FALSE
    ELSE FilepathBase(r.command[1]) \in BlockedFileTransferCommands

(***************************************************************************)
(* sessionHandler(session)                                                 *)
(***************************************************************************)
\* Lines 377-390, on a connection the library is handling.
SessionStart(s, c, env) ==
    /\ sess[s].pc = "idle"
    /\ conn[c].pc = "handle"
    /\ ~conn[c].closed
    /\ LET m == extractMagicSessionType(env) IN
       sess' = [sess EXCEPT ![s] =
                  [@ EXCEPT !.pc = "track", !.conn = c, !.environ = env,
                            !.env = m.filteredEnv,
                            !.magicType = m.magicType]]
    /\ UNCHANGED <<mu, hostSigners, tracker, counters, config, close, serve, conn, proc>>

\* The client goes away: the session's channel closes, its context ends.
SessionCtxCancel(s) ==
    /\ sess[s].pc \notin {"idle", "done"}
    /\ ~sess[s].ctxDone
    /\ sess' = [sess EXCEPT ![s].ctxDone = TRUE]
    /\ UNCHANGED <<mu, hostSigners, tracker, counters, config, close, serve, conn, proc>>

\* Line 392: s.trackSession(session, true)
TrackSessionAdd(s) ==
    /\ sess[s].pc = "track"
    /\ mu = 0
    /\ IF TrackSessionOk
       THEN /\ wg' = wg + 1
            /\ sessions' = sessions \cup {s}
            /\ sess' = [sess EXCEPT ![s].pc = "count", ![s].admitted = TRUE]
       ELSE /\ sess' = [sess EXCEPT ![s].pc = "rejected"]
            /\ UNCHANGED <<wg, sessions>>
    /\ UNCHANGED <<mu, hostSigners, listeners, conns, processes, closing, chanClosed,
                   counters, config, close, serve, conn, proc>>

\* The rejection with disconnected called at once, not deferred.
RejectSessionNoDefer(r) ==
    [r EXCEPT !.pc = "done", !.ctxDone = TRUE,
              !.log = @ \o << <<"report">>,
                   <<"disconnected", 1, "unable to accept new session, server is closing">>,
                   <<"close">> >>]

\* The rejection that ends the session with Exit(1) instead of Close.
RejectSessionWithExit(r) ==
    [r EXCEPT !.pc = "done", !.ctxDone = TRUE,
              !.log = @ \o << <<"report">>, <<"exit", 1>>,
                   <<"disconnected", 1, "unable to accept new session, server is closing">> >>]

\* Lines 393-401: report, session.Close(), and the deferred disconnected.
RejectSession(r) ==
    [r EXCEPT !.pc = "done", !.ctxDone = TRUE,
              !.log = @ \o << <<"report">>, <<"close">>,
                   <<"disconnected", 1, "unable to accept new session, server is closing">> >>]

SessReject(s) ==
    /\ sess[s].pc = "rejected"
    /\ sess' = [sess EXCEPT ![s] = RejectSession(@)]
    /\ UNCHANGED <<mu, hostSigners, tracker, counters, config, close, serve, conn, proc>>

\* Counters that count a session of any type.
CountDeltaAny(r, which) ==
    1

\* Lines 407-420: the connection counters.
CountDelta(r, which) ==
    IF r.magicType = which THEN 1 ELSE 0

SessCount(s) ==
    /\ sess[s].pc = "count"
    /\ connCountVSCode' = connCountVSCode + CountDelta(sess[s], MagicSessionTypeVSCode)
    /\ connCountSSHSession' = connCountSSHSession + CountDelta(sess[s], MagicSessionTypeSSH)
    /\ sess' = [sess EXCEPT ![s].pc = "report"]
    /\ UNCHANGED <<mu, hostSigners, tracker, config, close, serve, conn, proc>>

\* Lines 422-434: wrap the session and call ReportConnection.
ReportSession(r) ==
    IF reportSession(r)
    THEN [r EXCEPT !.pc = "guard", !.wrapped = TRUE, !.log = Append(@, <<"report">>)]
    ELSE [r EXCEPT !.pc = "guard"]

SessReport(s) ==
    /\ sess[s].pc = "report"
    /\ sess' = [sess EXCEPT ![s] = ReportSession(@)]
    /\ UNCHANGED <<mu, hostSigners, tracker, counters, config, close, serve, conn, proc>>

\* The blocked path that writes the message whatever the subsystem.
BlockSessionAlwaysWrites(r) ==
    LET w == Write(r, <<"\\x02", BlockedFileTransferErrorMessage, "\\n">>)
    IN [Exit(closeCause(w, "file transfer blocked"), BlockedFileTransferErrorCode)
           EXCEPT !.pc = "disconnect"]

\* Lines 436-447: the blocked file transfer.
BlockSession(r) ==
    LET w == IF r.subsystem = ""
             THEN Write(r, <<"\\x02", BlockedFileTransferErrorMessage, "\\n">>)
             ELSE r
    IN [Exit(closeCause(w, "file transfer blocked"), BlockedFileTransferErrorCode)
           EXCEPT !.pc = "disconnect"]

\* session.Subsystem(), session.RawCommand() and session.Command(), first
\* read by the guard.
Asked(r, subsystem, rawCommand) ==
    [r EXCEPT !.subsystem = subsystem, !.rawCommand = rawCommand,
              !.command = Fields(rawCommand)]

SessBlocked(s, subsystem, command) ==
    /\ sess[s].pc = "guard"
    /\ fileTransferBlocked(config, Asked(sess[s], subsystem, command))
    /\ sess' = [sess EXCEPT ![s] = BlockSession(Asked(@, subsystem, command))]
    /\ UNCHANGED <<mu, hostSigners, tracker, counters, config, close, serve, conn, proc>>

\* The switch that starts the SFTP server for a container too.
RouteSessionSftpInContainer(cfg, r) ==
    LET ci == extractContainerInfo(r.env)
        q == [r EXCEPT !.env = ci.filteredEnv, !.container = ci.container]
    IN CASE q.subsystem = "" -> [q EXCEPT !.pc = "x11"]
         [] q.subsystem = "sftp" -> [q EXCEPT !.pc = "sftp"]
         [] OTHER ->
              [Exit(closeCause(q, "unsupported subsystem: " \o q.subsystem), 1)
                  EXCEPT !.pc = "disconnect"]

\* Lines 449-475: the container info and the switch on the subsystem.
RouteSession(cfg, r) ==
    LET ci == extractContainerInfo(r.env)
        q == [r EXCEPT !.env = ci.filteredEnv, !.container = ci.container]
    IN CASE q.subsystem = "" -> [q EXCEPT !.pc = "x11"]
         [] q.subsystem = "sftp" ->
              IF cfg.ExperimentalContainers /\ q.container # <<>>
              THEN [Exit(closeCause(q, "sftp not yet supported with containers"), 1)
                       EXCEPT !.pc = "disconnect"]
              ELSE [q EXCEPT !.pc = "sftp"]
         [] OTHER ->
              [Exit(closeCause(q, "unsupported subsystem: " \o q.subsystem), 1)
                  EXCEPT !.pc = "disconnect"]

SessRoute(s, subsystem, command) ==
    /\ sess[s].pc = "guard"
    /\ ~fileTransferBlocked(config, Asked(sess[s], subsystem, command))
    /\ sess' = [sess EXCEPT ![s] = RouteSession(config, Asked(@, subsystem, command))]
    /\ UNCHANGED <<mu, hostSigners, tracker, counters, config, close, serve, conn, proc>>

(***************************************************************************)
(* sftpHandler                                                             *)
(***************************************************************************)
\* Lines 807-833: sftp.NewServer; its failure returns without an Exit.
SftpStart(r, ok) ==
    IF ok
    THEN [r EXCEPT !.pc = "sftpServe", !.started = @ \cup {"sftp"}]
    ELSE [closeCause(r, "initialize sftp server: err") EXCEPT !.pc = "disconnect"]

SessSftpStart(s, ok) ==
    /\ sess[s].pc = "sftp"
    /\ sess' = [sess EXCEPT ![s] = SftpStart(@, ok)]
    /\ UNCHANGED <<mu, hostSigners, tracker, counters, config, close, serve, conn, proc>>

\* sessionCloseTracker.Close: track(1) when the session is wrapped.
Closed(r) ==
    IF r.wrapped THEN track(r, 1) ELSE r

\* Lines 835-851: server.Serve() ends cleanly (Exit(0)) or with an error
\* (Exit(1)); the deferred server.Close() then closes the session.
SftpServed(r, clean) ==
    IF clean
    THEN [Closed(Exit(r, 0)) EXCEPT !.pc = "disconnect"]
    ELSE [closeCause(Closed(Exit(r, 1)), "sftp server closed with error: err")
             EXCEPT !.pc = "disconnect"]

SessSftpDone(s, clean) ==
    /\ sess[s].pc = "sftpServe"
    /\ sess' = [sess EXCEPT ![s] = SftpServed(@, clean)]
    /\ UNCHANGED <<mu, hostSigners, tracker, counters, config, close, serve, conn, proc>>

\* The calls a holder of the wrapped session can make on it: Exit(code) and
\* Close().
TrackerCalls == { <<"exit", 0>>, <<"exit", 65>>, <<"close">> }

\* Lines 351-359: sessionCloseTracker.Exit or sessionCloseTracker.Close is
\* called on the wrapped session, any number of times up to MaxCalls.
SessTrackerCall(s, call) ==
    /\ sess[s].pc = "guard"
    /\ sess[s].wrapped
    /\ Len(SelectSeq(sess[s].log, LAMBDA e : e[1] \in {"exit", "close"})) < MaxCalls
    /\ sess' = [sess EXCEPT ![s] =
                  IF call[1] = "exit" THEN Exit(@, call[2])
                  ELSE [Closed(@) EXCEPT !.log = Append(@, <<"close">>)]]
    /\ UNCHANGED <<mu, hostSigners, tracker, counters, config, close, serve, conn, proc>>

(***************************************************************************)
(* The exec path: X11, sessionStart, the runners.                          *)
(***************************************************************************)
\* Lines 477-487
X11Setup(r, hasX11, handled) ==
    IF ~hasX11 THEN [r EXCEPT !.pc = "start"]
    ELSE IF ~handled
    THEN [Exit(closeCause(r, "x11 handler failed"), 1)
             EXCEPT !.pc = "disconnect", !.x11 = TRUE]
    ELSE [r EXCEPT !.pc = "start", !.x11 = TRUE, !.started = @ \cup {"x11"},
                   !.env = Append(@, <<"D","I","S","P","L","A","Y","=">>)]

\* hasX11 is session.X11(), handled is what x11Handler returns.
SessX11(s, hasX11, handled) ==
    /\ sess[s].pc = "x11"
    /\ hasX11 \/ handled
    /\ sess' = [sess EXCEPT ![s] = X11Setup(@, hasX11, handled)]
    /\ UNCHANGED <<mu, hostSigners, tracker, counters, config, close, serve, conn, proc>>

\* What can fail in sessionStart before a runner is chosen (lines 572-596).
\* "create_command" is a failure of CommandEnv; "panic" is CreateCommand
\* reading words[0] of no words, which ends the program.
SetupOutcomes(cfg, r, agent) ==
    {"create_command"}
      \cup (IF cfg.ExperimentalContainers /\ r.container # <<>>
            THEN {"container_env_info"} ELSE {})
      \cup (IF CreateCommand(cfg, GOOS, r.rawCommand, r.env).st = "panic"
            THEN {"panic"}
            ELSE {"ok"} \cup (IF agent THEN {"listener"} ELSE {}))

\* Lines 562-602: sessionStart up to the choice of the runner.
SessionSetup(cfg, r, agent, isPty, outcome) ==
    LET built == CreateCommand(cfg, GOOS, r.rawCommand, r.env) IN
    IF outcome = "container_env_info" \/ outcome = "create_command"
    THEN [r EXCEPT !.pc = "result", !.err = "other"]
    ELSE IF outcome = "panic"
    THEN [r EXCEPT !.pc = "panic"]
    ELSE IF outcome = "listener"
    THEN [r EXCEPT !.pc = "result", !.err = "other", !.cmd = built]
    ELSE [r EXCEPT !.pc = IF isPty THEN "pty" ELSE "nonpty", !.pty = isPty,
                   !.started = IF agent THEN @ \cup {"agent"} ELSE @,
                   !.cmd = IF agent
                           THEN [built EXCEPT !.env = Append(@, <<"S","S","H","_","A","U","T","H","_","S","O","C","K","=">>)]
                           ELSE built]

\* agent is ssh.AgentRequested(session), isPty is what session.Pty() says.
SessSetup(s, agent, isPty, outcome) ==
    /\ sess[s].pc = "start"
    /\ outcome \in SetupOutcomes(config, sess[s], agent)
    /\ outcome # "ok" => ~isPty
    /\ sess' = [sess EXCEPT ![s] = SessionSetup(config, @, agent, isPty, outcome)]
    /\ UNCHANGED <<mu, hostSigners, tracker, counters, config, close, serve, conn, proc>>

\* err as sessionHandler sees it: nil, an *exec.ExitError, or another error.
WaitResult(r, p) ==
    IF p.code = 0 THEN [r EXCEPT !.err = "nil"]
    ELSE [r EXCEPT !.err = "exit", !.exitErr = p.code]

\* A non-PTY command that keeps the Cancel of exec.CommandContext.
NonPTYCancelKept ==
    TRUE

\* What exec.Cmd.Cancel is when startNonPTYSession starts the process (line 614):
\* cmd.Cancel = nil.
NonPTYCancel ==
    FALSE

\* Lines 604-636: the stdin pipe and cmd.Start().
SessNonPtyStart(s, outcome) ==
    /\ sess[s].pc = "nonpty"
    /\ outcome \in {"ok", "stdin_pipe", "start_command"}
    /\ IF outcome = "ok"
       THEN /\ proc' = [proc EXCEPT ![s] = [@ EXCEPT !.st = "running", !.cancel = NonPTYCancel]]
            /\ sess' = [sess EXCEPT ![s].pc = "trackp", ![s].started = @ \cup {"process"}]
       ELSE /\ sess' = [sess EXCEPT ![s].pc = "result", ![s].err = "other"]
            /\ UNCHANGED proc
    /\ UNCHANGED <<mu, hostSigners, tracker, counters, config, close, serve, conn>>

\* A runner that returns without signalling the process it could not track.
TrackProcessAddNoCancel(s) ==
    /\ sess[s].pc = "trackp"
    /\ mu = 0
    /\ IF TrackProcessOk
       THEN /\ wg' = wg + 1
            /\ processes' = processes \cup {s}
            /\ sess' = [sess EXCEPT ![s].pc = "wait"]
       ELSE /\ sess' = [sess EXCEPT ![s].pc = "result", ![s].err = "other"]
            /\ UNCHANGED <<wg, processes>>
    /\ UNCHANGED <<mu, hostSigners, listeners, conns, sessions, closing, chanClosed,
                   counters, config, close, serve, conn, proc>>

\* Lines 640-645: s.trackProcess(cmd.Process, true), else cmdCancel and return.
TrackProcessAdd(s) ==
    /\ sess[s].pc = "trackp"
    /\ mu = 0
    /\ IF TrackProcessOk
       THEN /\ wg' = wg + 1
            /\ processes' = processes \cup {s}
            /\ sess' = [sess EXCEPT ![s].pc = "wait"]
            /\ UNCHANGED proc
       ELSE /\ proc' = cmdCancel(proc, s, "handler")
            /\ sess' = [sess EXCEPT ![s].pc = "result", ![s].err = "other"]
            /\ UNCHANGED <<wg, processes>>
    /\ UNCHANGED <<mu, hostSigners, listeners, conns, sessions, closing, chanClosed,
                   counters, config, close, serve, conn>>

\* Line 658: cmd.Wait() returns once the process has ended.
SessNonPtyWait(s) ==
    /\ sess[s].pc = "wait"
    /\ proc[s].st = "exited"
    /\ sess' = [sess EXCEPT ![s] = [WaitResult(@, proc[s]) EXCEPT !.pc = "untrackp"]]
    /\ UNCHANGED <<mu, hostSigners, tracker, counters, config, close, serve, conn, proc>>

\* Line 645: the deferred s.trackProcess(cmd.Process, false)
TrackProcessRemove(s) ==
    /\ sess[s].pc = "untrackp"
    /\ mu = 0
    /\ wg' = wg - 1
    /\ processes' = processes \ {s}
    /\ sess' = [sess EXCEPT ![s].pc = "result"]
    /\ UNCHANGED <<mu, hostSigners, listeners, conns, sessions, closing, chanClosed,
                   counters, config, close, serve, conn, proc>>

(***************************************************************************)
(* startPTYSession: banners, MOTD, pty.Start and the task for signals and  *)
(* window changes.                                                         *)
(***************************************************************************)
\* bufio.Scanner over text: its lines, each without its line break and
\* without a carriage return before it.
RECURSIVE ScanLines(_)
ScanLines(text) ==
    LET Breaks == { i \in 1..Len(text) : text[i] = "\n" }
        dropCR(line) == IF Len(line) > 0 /\ line[Len(line)] = "\r"
                        THEN SubSeq(line, 1, Len(line) - 1) ELSE line
    IN IF text = <<>> THEN <<>>
       ELSE IF Breaks = {} THEN <<dropCR(text)>>
       ELSE LET b == CHOOSE i \in Breaks : \A j \in Breaks : i <= j
            IN <<dropCR(SubSeq(text, 1, b - 1))>> \o ScanLines(SubSeq(text, b + 1, Len(text)))

\* How many more writes to the session succeed before one fails: a number,
\* or -1 when none fails.
WriteBudgets == -1..MaxLines

\* Lines 1279-1291: each line is written with "\r\n" after it; the first
\* write that fails ends the loop with its error.
RECURSIVE writeWithCarriageReturn(_, _, _)
writeWithCarriageReturn(r, lines, budget) ==
    IF lines = <<>> THEN [r |-> r, err |-> FALSE, budget |-> budget]
    ELSE IF budget = 0 THEN [r |-> r, err |-> TRUE, budget |-> budget]
    ELSE writeWithCarriageReturn(Write(r, Head(lines) \o <<"\r", "\n">>), Tail(lines),
                                 IF budget > 0 THEN budget - 1 ELSE budget)

\* Lines 1245-1253
showAnnouncementBanner(r, banner, budget) ==
    IF banner.Enabled /\ banner.Message # <<>>
    THEN writeWithCarriageReturn(r, ScanLines(TrimSpace(banner.Message) \o <<"\n", "\n">>), budget)
    ELSE [r |-> r, err |-> FALSE, budget |-> budget]

\* Lines 682-689: the loop over the banners, left at the first error.
RECURSIVE ShowBanners(_, _, _)
ShowBanners(r, banners, budget) ==
    IF banners = <<>> THEN r
    ELSE LET w == showAnnouncementBanner(r, Head(banners), budget)
         IN IF w.err
            THEN [w.r EXCEPT !.greetErrs = @ \cup {"announcement_banner"}]
            ELSE ShowBanners(w.r, Tail(banners), w.budget)

\* Lines 1259-1275
showMOTD(fs, r, filename, budget) ==
    IF filename = <<>> \/ fs.MOTD.st = "absent" THEN [r |-> r, err |-> FALSE, budget |-> budget]
    ELSE IF fs.MOTD.st = "unreadable" THEN [r |-> r, err |-> TRUE, budget |-> budget]
    ELSE writeWithCarriageReturn(r, ScanLines(fs.MOTD.text), budget)

\* Lines 1219-1221
isLoginShell(rawCommand) ==
    Len(rawCommand) = 0

\* Lines 1226-1241
isQuietLogin(fs, rawCommand) ==
    IF ~isLoginShell(rawCommand) THEN TRUE
    ELSE IF fs.HomeDirErr THEN FALSE
    ELSE fs.Hushlogin

\* A greeting that shows no banner in a quiet login.
PtyGreetingHushed(cfg, r, bannerBudget, motdBudget) ==
    LET b == IF ~isQuietLogin(cfg.fs, r.rawCommand)
             THEN ShowBanners(r, cfg.AnnouncementBanners, bannerBudget)
             ELSE r
        m == IF ~isQuietLogin(cfg.fs, r.rawCommand)
             THEN showMOTD(cfg.fs, b, cfg.MOTDFile, motdBudget)
             ELSE [r |-> b, err |-> FALSE, budget |-> motdBudget]
        g == IF m.err THEN [m.r EXCEPT !.greetErrs = @ \cup {"motd"}] ELSE m.r
    IN [g EXCEPT !.cmd.env = Append(@, <<"T","E","R","M","=","x">>)]

\* Lines 679-701: the banners, the MOTD, and TERM added to the command's
\* environment. bannerBudget and motdBudget say which write, if any, fails.
PtyGreeting(cfg, r, bannerBudget, motdBudget) ==
    LET b == IF isLoginShell(r.rawCommand)
             THEN ShowBanners(r, cfg.AnnouncementBanners, bannerBudget)
             ELSE r
        m == IF ~isQuietLogin(cfg.fs, r.rawCommand)
             THEN showMOTD(cfg.fs, b, cfg.MOTDFile, motdBudget)
             ELSE [r |-> b, err |-> FALSE, budget |-> motdBudget]
        g == IF m.err THEN [m.r EXCEPT !.greetErrs = @ \cup {"motd"}] ELSE m.r
    IN [g EXCEPT !.cmd.env = Append(@, <<"T","E","R","M","=","x">>)]

\* A PTY runner that gives up when a banner or the MOTD could not be written.
PtyStartedStrict(cfg, r, ok, bannerBudget, motdBudget) ==
    LET g == PtyGreeting(cfg, r, bannerBudget, motdBudget)
    IN IF ok /\ g.greetErrs = {}
       THEN [g EXCEPT !.pc = "ptyCopy", !.started = @ \cup {"process"}, !.fan.pc = "loop"]
       ELSE [g EXCEPT !.pc = "result", !.err = "other"]

\* Lines 671-728: the session after the greeting, pty.Start (ok says whether
\* it succeeded), session.Signals(sigs) and the start of the task.
PtyStarted(cfg, r, ok, bannerBudget, motdBudget) ==
    LET g == PtyGreeting(cfg, r, bannerBudget, motdBudget)
    IN IF ok
       THEN [g EXCEPT !.pc = "ptyCopy", !.started = @ \cup {"process"}, !.fan.pc = "loop"]
       ELSE [g EXCEPT !.pc = "result", !.err = "other"]

\* Lines 724-727, deferred: session.Signals(nil) and close(sigs), run when
\* the runner returns.
PtyReturned(r) ==
    [r EXCEPT !.fan.sigsClosed = TRUE]

\* A PTY runner that records its process in the tracker as it starts it.
SessPtyStartTracked(s, ok) ==
    /\ sess[s].pc = "pty"
    /\ \E bb \in WriteBudgets, mb \in WriteBudgets :
         sess' = [sess EXCEPT ![s] = PtyStarted(config, @, ok, bb, mb)]
    /\ IF ok
       THEN /\ proc' = [proc EXCEPT ![s] = [@ EXCEPT !.st = "running", !.cancel = TRUE]]
            /\ processes' = IF TrackProcessOk THEN processes \cup {s} ELSE processes
       ELSE UNCHANGED <<proc, processes>>
    /\ UNCHANGED <<mu, hostSigners, listeners, conns, sessions, closing, chanClosed, wg,
                   counters, config, close, serve, conn>>

\* Lines 671-728: pty.Start(cmd); the command is bound to the session context.
SessPtyStart(s, ok) ==
    /\ sess[s].pc = "pty"
    /\ \E bb \in WriteBudgets, mb \in WriteBudgets :
         sess' = [sess EXCEPT ![s] = PtyStarted(config, @, ok, bb, mb)]
    /\ IF ok
       THEN proc' = [proc EXCEPT ![s] = [@ EXCEPT !.st = "running", !.cancel = TRUE]]
       ELSE UNCHANGED proc
    /\ UNCHANGED <<mu, hostSigners, tracker, counters, config, close, serve, conn>>

(***************************************************************************)
(* The task of a PTY session for client signals and window changes.        *)
(***************************************************************************)
\* The client sends a signal while sigs is registered with the session
\* (from line 723 until the deferred session.Signals(nil)); sigs holds one.
ClientSignal(s) ==
    /\ sess[s].pc \in {"ptyCopy", "ptyWait"}
    /\ LET f == sess[s].fan IN
       /\ Len(f.sigsCh) < 1
       /\ f.sent < MaxEvents
       /\ sess' = [sess EXCEPT ![s].fan =
                     [f EXCEPT !.sent = @ + 1, !.sigsCh = Append(@, f.sent + 1),
                               !.sigOut = Append(@, f.sent + 1)]]
    /\ UNCHANGED <<mu, hostSigners, tracker, counters, config, close, serve, conn, proc>>

\* The client changes its window while the session's channel is open; the
\* window channel holds one.
ClientWindowChange(s) ==
    /\ sess[s].pty /\ sess[s].pc # "done" /\ ~sess[s].ctxDone
    /\ LET f == sess[s].fan IN
       /\ ~f.winClosed
       /\ Len(f.winCh) < 1
       /\ f.sent < MaxEvents
       /\ sess' = [sess EXCEPT ![s].fan =
                     [f EXCEPT !.sent = @ + 1, !.winCh = Append(@, f.sent + 1),
                               !.winOut = Append(@, f.sent + 1)]]
    /\ UNCHANGED <<mu, hostSigners, tracker, counters, config, close, serve, conn, proc>>

\* The session's channel is closed, by the client or after the handler has
\* returned: the SSH library closes the window channel.
WindowClosed(s) ==
    /\ sess[s].pty
    /\ sess[s].ctxDone \/ sess[s].pc = "done"
    /\ ~sess[s].fan.winClosed
    /\ sess' = [sess EXCEPT ![s].fan.winClosed = TRUE]
    /\ UNCHANGED <<mu, hostSigners, tracker, counters, config, close, serve, conn, proc>>

\* Line 735: sig, ok := <-sigs with a signal in the channel.
FanInReceiveSignal(s) ==
    /\ LET f == sess[s].fan IN
       /\ f.pc = "loop" /\ f.sigs = "live" /\ f.sigsCh # <<>>
       /\ sess' = [sess EXCEPT ![s].fan =
                     [f EXCEPT !.pc = "gotSig", !.sigsCh = Tail(@),
                               !.sigIn = Append(@, Head(f.sigsCh))]]
    /\ UNCHANGED <<mu, hostSigners, tracker, counters, config, close, serve, conn, proc>>

\* Line 740: handleSignal(logger, sig, process, ...), which signals the process.
FanInSignal(s) ==
    /\ sess[s].fan.pc = "gotSig"
    /\ proc' = [proc EXCEPT ![s].signals = Append(@, sess[s].fan.sigIn[Len(sess[s].fan.sigIn)])]
    /\ sess' = [sess EXCEPT ![s].fan.pc = "loop"]
    /\ UNCHANGED <<mu, hostSigners, tracker, counters, config, close, serve, conn>>

\* Line 741: win, ok := <-windowSize with a window in the channel.
FanInReceiveWindow(s) ==
    /\ LET f == sess[s].fan IN
       /\ f.pc = "loop" /\ f.win = "live" /\ f.winCh # <<>>
       /\ sess' = [sess EXCEPT ![s].fan =
                     [f EXCEPT !.pc = "gotWin", !.winCh = Tail(@),
                               !.winIn = Append(@, Head(f.winCh))]]
    /\ UNCHANGED <<mu, hostSigners, tracker, counters, config, close, serve, conn, proc>>

\* Line 747: ptty.Resize(height, width)
FanInResize(s) ==
    /\ LET f == sess[s].fan IN
       /\ f.pc = "gotWin"
       /\ sess' = [sess EXCEPT ![s].fan =
                     [f EXCEPT !.pc = "loop", !.resized = Append(@, f.winIn[Len(f.winIn)])]]
    /\ UNCHANGED <<mu, hostSigners, tracker, counters, config, close, serve, conn, proc>>

\* A task that returns as soon as one of its channels is closed.
FanInRetireReturns(s, which) ==
    /\ LET f == sess[s].fan
           g == IF which = "sigs" THEN [f EXCEPT !.sigs = "retired"]
                ELSE [f EXCEPT !.win = "retired"]
       IN /\ f.pc = "loop"
          /\ IF which = "sigs"
             THEN f.sigs = "live" /\ f.sigsCh = <<>> /\ f.sigsClosed
             ELSE f.win = "live" /\ f.winCh = <<>> /\ f.winClosed
          /\ sess' = [sess EXCEPT ![s].fan = [g EXCEPT !.pc = "done"]]
    /\ UNCHANGED <<mu, hostSigners, tracker, counters, config, close, serve, conn, proc>>

\* Lines 730-745: a receive from a closed, empty channel sets that variable
\* to nil; the loop goes on, and returns when both are nil.
FanInRetire(s, which) ==
    /\ LET f == sess[s].fan
           g == IF which = "sigs" THEN [f EXCEPT !.sigs = "retired"]
                ELSE [f EXCEPT !.win = "retired"]
       IN /\ f.pc = "loop"
          /\ IF which = "sigs"
             THEN f.sigs = "live" /\ f.sigsCh = <<>> /\ f.sigsClosed
             ELSE f.win = "live" /\ f.winCh = <<>> /\ f.winClosed
          /\ sess' = [sess EXCEPT ![s].fan =
                        [g EXCEPT !.pc = IF g.sigs = "retired" /\ g.win = "retired"
                                         THEN "done" ELSE "loop"]]
    /\ UNCHANGED <<mu, hostSigners, tracker, counters, config, close, serve, conn, proc>>

\* The child writes a byte to its PTY.
ProcWrite(s) ==
    /\ proc[s].st = "running"
    /\ sess[s].pty
    /\ proc[s].out < MaxOutput
    /\ proc' = [proc EXCEPT ![s].out = @ + 1]
    /\ UNCHANGED <<mu, hostSigners, tracker, counters, config, close, serve, conn, sess>>

\* Line 772: io.Copy moves a byte from the PTY to the session.
SessPtyCopy(s) ==
    /\ sess[s].pc = "ptyCopy"
    /\ sess[s].copied < proc[s].out
    /\ sess' = [sess EXCEPT ![s].copied = @ + 1]
    /\ UNCHANGED <<mu, hostSigners, tracker, counters, config, close, serve, conn, proc>>

\* The copy that ends, without an error, while output is still to come.
SessPtyCopyDoneEarly(s, copyErr) ==
    /\ sess[s].pc = "ptyCopy"
    /\ IF copyErr
       THEN /\ sess[s].ctxDone
            /\ sess' = [sess EXCEPT ![s] = [PtyReturned(@) EXCEPT !.pc = "result", !.err = "other"]]
            /\ proc' = cmdCancel(proc, s, "ptyClose")
       ELSE /\ sess' = [sess EXCEPT ![s].pc = "ptyWait"]
            /\ UNCHANGED proc
    /\ UNCHANGED <<mu, hostSigners, tracker, counters, config, close, serve, conn>>

\* Lines 772-777: io.Copy(session, ptty.OutputReader()) ends: at the end of the
\* output, or with an error once the session is gone; the deferred ptty.Close()
\* then hangs up the process.
SessPtyCopyDone(s, copyErr) ==
    /\ sess[s].pc = "ptyCopy"
    /\ IF copyErr
       THEN /\ sess[s].ctxDone
            /\ sess' = [sess EXCEPT ![s] = [PtyReturned(@) EXCEPT !.pc = "result", !.err = "other"]]
            /\ proc' = cmdCancel(proc, s, "ptyClose")
       ELSE /\ proc[s].st = "exited"
            /\ sess[s].copied = proc[s].out
            /\ sess' = [sess EXCEPT ![s].pc = "ptyWait"]
            /\ UNCHANGED proc
    /\ UNCHANGED <<mu, hostSigners, tracker, counters, config, close, serve, conn>>

\* Lines 781-792 and the deferred calls: close(sigs) (lines 724-727), then
\* ptty.Close() (lines 712-721).
PtyWaited(r, p, closeErr) ==
    LET w == PtyReturned(WaitResult(r, p))
    IN IF w.err = "nil" /\ closeErr
       THEN [w EXCEPT !.pc = "result", !.err = "other"]
       ELSE [w EXCEPT !.pc = "result"]

SessPtyWait(s, closeErr) ==
    /\ sess[s].pc = "ptyWait"
    /\ proc[s].st = "exited"
    /\ sess' = [sess EXCEPT ![s] = PtyWaited(@, proc[s], closeErr)]
    /\ UNCHANGED <<mu, hostSigners, tracker, counters, config, close, serve, conn, proc>>

\* The exit status without the remapping of -1.
ExitStatusRaw(r) ==
    IF r.err = "exit" THEN r.exitErr
    ELSE IF r.err # "nil" THEN MagicSessionErrorCode
    ELSE 0

\* Lines 489-528: the runner's error becomes the exit status.
ExitStatus(r) ==
    IF r.err = "exit" THEN (IF r.exitErr = -1 THEN 255 ELSE r.exitErr)
    ELSE IF r.err # "nil" THEN MagicSessionErrorCode
    ELSE 0

SessionResult(r) ==
    LET q == IF r.err = "exit"
             THEN closeCause(r, "process exited with error status: " \o ToString(r.exitErr))
             ELSE IF r.err # "nil" THEN closeCause(r, r.err)
             ELSE r
    IN [Exit(q, ExitStatus(r)) EXCEPT !.pc = "disconnect"]

SessResult(s) ==
    /\ sess[s].pc = "result"
    /\ sess' = [sess EXCEPT ![s] = SessionResult(@)]
    /\ UNCHANGED <<mu, hostSigners, tracker, counters, config, close, serve, conn, proc>>

\* Lines 431-433: the deferred disconnected(scr.exitCode(), reason).
Disconnected(r) ==
    IF r.wrapped
    THEN [r EXCEPT !.pc = "uncount", !.log = Append(@, <<"disconnected", r.code, r.reason>>)]
    ELSE [r EXCEPT !.pc = "uncount"]

\* A handler that deregisters its session before it calls disconnected.
SessDisconnectedLate(s) ==
    /\ sess[s].pc = "disconnect"
    /\ mu = 0
    /\ wg' = wg - 1
    /\ sessions' = sessions \ {s}
    /\ sess' = [sess EXCEPT ![s] = Disconnected(@)]
    /\ UNCHANGED <<mu, hostSigners, listeners, conns, processes, closing, chanClosed,
                   counters, config, close, serve, conn, proc>>

SessDisconnected(s) ==
    /\ sess[s].pc = "disconnect"
    /\ sess' = [sess EXCEPT ![s] = Disconnected(@)]
    /\ UNCHANGED <<mu, hostSigners, tracker, counters, config, close, serve, conn, proc>>

\* Lines 410 and 417: the deferred counter decrements.
SessUncount(s) ==
    /\ sess[s].pc = "uncount"
    /\ connCountVSCode' = connCountVSCode - CountDelta(sess[s], MagicSessionTypeVSCode)
    /\ connCountSSHSession' = connCountSSHSession - CountDelta(sess[s], MagicSessionTypeSSH)
    /\ sess' = [sess EXCEPT ![s].pc = "untrack"]
    /\ UNCHANGED <<mu, hostSigners, tracker, config, close, serve, conn, proc>>

\* Line 403: the deferred s.trackSession(session, false)
TrackSessionRemove(s) ==
    /\ sess[s].pc = "untrack"
    /\ mu = 0
    /\ wg' = wg - 1
    /\ sessions' = sessions \ {s}
    /\ sess' = [sess EXCEPT ![s].pc = "done"]
    /\ UNCHANGED <<mu, hostSigners, listeners, conns, processes, closing, chanClosed,
                   counters, config, close, serve, conn, proc>>

(***************************************************************************)
(* The child process.                                                      *)
(***************************************************************************)
\* The process ends by itself.
ProcExit(s, code) ==
    /\ proc[s].st = "running"
    /\ proc' = [proc EXCEPT ![s].st = "exited", ![s].code = code]
    /\ UNCHANGED <<mu, hostSigners, tracker, counters, config, close, serve, conn, sess>>

\* The process dies of the terminate signal it was sent.
ProcHungUp(s) ==
    /\ proc[s].st = "running"
    /\ proc[s].hup # {}
    /\ proc' = [proc EXCEPT ![s].st = "exited", ![s].code = -1]
    /\ UNCHANGED <<mu, hostSigners, tracker, counters, config, close, serve, conn, sess>>

\* exec.CommandContext: a command whose Cancel is set is killed when its
\* context ends.
ProcCtxKilled(s) ==
    /\ proc[s].st = "running"
    /\ proc[s].cancel
    /\ sess[s].ctxDone
    /\ proc' = [proc EXCEPT ![s].st = "exited", ![s].code = -1, ![s].hup = @ \cup {"ctx"}]
    /\ UNCHANGED <<mu, hostSigners, tracker, counters, config, close, serve, conn, sess>>

(***************************************************************************)
(* The specifications.                                                     *)
(***************************************************************************)
\* What the network does by itself.
NetworkNext(LS, NS, SS) ==
    \/ \E l \in LS : ListenerBreaks(l)
    \/ \E c \in NS : ClientDisconnects(c)
    \/ \E s \in SS : SessionCtxCancel(s)

\* A Close call that found another one in progress.
ReentrantNext(CS) ==
    \E c \in CS : CloseBlockedReturn(c)

\* The server's own threads: Serve, handleConn, Close.
ServerNext(CS, LS, NS, SS, Errs) ==
    \/ UpdateHostSigner
    \/ \E l \in LS : ServeStart(l)
    \/ \E l \in LS : TrackListenerAdd(l)
    \/ \E l \in LS : ListenerUnpark(l)
    \/ \E l \in LS, c \in NS : Accept(l, c)
    \/ \E l \in LS : AcceptError(l)
    \/ \E l \in LS : TrackListenerRemove(l)
    \/ \E c \in NS : TrackConnAdd(c)
    \/ \E c \in NS : HandleConnReturn(c)
    \/ \E c \in NS : TrackConnRemove(c)
    \/ \E c \in CS : CloseBegin(c)
    \/ \E c \in CS : CloseAdvance(c)
    \/ \E c \in CS, l \in LS : CloseListener(c, l)
    \/ \E c \in CS, s \in SS : CloseSession(c, s)
    \/ \E c \in CS, n \in NS : CloseConn(c, n)
    \/ \E c \in CS, err \in Errs : CloseSrv(c, err)
    \/ \E c \in CS : CloseUnlock(c)
    \/ \E c \in CS : CloseX11(c)
    \/ \E c \in CS : CloseWait(c)
    \/ \E c \in CS : CloseClear(c)

\* sessionHandler up to the guard, and its deferred calls.
HandlerNext(NS, SS, Envs) ==
    \/ \E s \in SS, c \in NS, env \in Envs : SessionStart(s, c, env)
    \/ \E s \in SS : TrackSessionAdd(s)
    \/ \E s \in SS : SessReject(s)
    \/ \E s \in SS : SessCount(s)
    \/ \E s \in SS : SessReport(s)
    \/ \E s \in SS : SessDisconnected(s)
    \/ \E s \in SS : SessUncount(s)
    \/ \E s \in SS : TrackSessionRemove(s)

\* The exec path of sessionHandler up to the runner, and the exit status.
CommandNext(SS, X11s, Agents, Ptys) ==
    \/ \E s \in SS, hasX11 \in X11s, handled \in BOOLEAN : SessX11(s, hasX11, handled)
    \/ \E s \in SS, agent \in Agents, isPty \in Ptys,
          o \in {"ok", "create_command", "container_env_info", "listener", "panic"} :
          SessSetup(s, agent, isPty, o)
    \/ \E s \in SS : SessResult(s)

\* startNonPTYSession, its process, and the Close that signals it.
NonPtyNext(CS, SS) ==
    \/ \E s \in SS, o \in {"ok", "stdin_pipe", "start_command"} : SessNonPtyStart(s, o)
    \/ \E s \in SS : TrackProcessAdd(s)
    \/ \E s \in SS : SessNonPtyWait(s)
    \/ \E s \in SS : TrackProcessRemove(s)
    \/ \E c \in CS, s \in SS : CloseProcess(c, s)
    \/ \E s \in SS, code \in ProcExitCodes : ProcExit(s, code)
    \/ \E s \in SS : ProcHungUp(s)

\* startPTYSession and what the session context does to its process.
PtyNext(SS) ==
    \/ \E s \in SS, ok \in BOOLEAN : SessPtyStart(s, ok)
    \/ \E s \in SS, copyErr \in BOOLEAN : SessPtyCopyDone(s, copyErr)
    \/ \E s \in SS, closeErr \in BOOLEAN : SessPtyWait(s, closeErr)
    \/ \E s \in SS : ProcCtxKilled(s)

\* The output of a PTY session's process on its way to the client.
PtyOutputNext(SS) ==
    \/ \E s \in SS : ProcWrite(s)
    \/ \E s \in SS : SessPtyCopy(s)

\* Shutdown and its caller's context.
ShutdownNext(CS) ==
    \/ \E c \in CS, cancelled \in BOOLEAN : ShutdownStart(c, cancelled)
    \/ \E c \in CS : ShutdownCtxDone(c)
    \/ \E c \in CS : ShutdownSend(c)
    \/ \E c \in CS, viaCtx \in BOOLEAN : ShutdownSelect(c, viaCtx)
    \/ \E c \in CS : ShutdownReturn(c)

\* The guard, the router and the SFTP runner.
GuardNext(SS, Subs, Cmds) ==
    \/ \E s \in SS, sub \in Subs, cmd \in Cmds : SessBlocked(s, sub, cmd)
    \/ \E s \in SS, sub \in Subs, cmd \in Cmds : SessRoute(s, sub, cmd)
    \/ \E s \in SS, ok \in BOOLEAN : SessSftpStart(s, ok)
    \/ \E s \in SS, clean \in BOOLEAN : SessSftpDone(s, clean)

\* One session of every kind on one connection, and one Close.
NextDispatch ==
    \/ ServerNext({1}, {1}, {1}, {1}, {"nil"})
    \/ HandlerNext({1}, {1}, {<<>>, EnvJetBrains, EnvContainer})
    \/ GuardNext({1}, Subsystems, SessionCommands)
    \/ CommandNext({1}, BOOLEAN, BOOLEAN, BOOLEAN)
    \/ NonPtyNext({1}, {1})
    \/ PtyNext({1})

SpecDispatch == Init /\ [][NextDispatch]_vars

\* NewServer with a nil config: &Config{} (lines 153-155).
DefaultConfig ==
    [BlockFileTransfer |-> FALSE, ExperimentalContainers |-> FALSE, UpdateEnv |-> "same",
     AnnouncementBanners |-> <<>>, MOTDFile |-> <<>>, fs |-> NoFiles]

InitDefault == Init /\ config = DefaultConfig

\* The server's life: concurrent Close calls, Serve, a connection, and a
\* session that runs a command, under the default configuration.
Next ==
    \/ NetworkNext({1}, Conns, {1})
    \/ ServerNext(Closers, {1}, Conns, {1}, {"nil", "srv close error"})
    \/ ReentrantNext(Closers)
    \/ HandlerNext(Conns, {1}, {<<>>})
    \/ \E s \in {1} : SessRoute(s, "", CmdLs)
    \/ CommandNext({1}, {FALSE}, {FALSE}, BOOLEAN)
    \/ NonPtyNext(Closers, {1})
    \/ PtyNext({1})

Spec == InitDefault /\ [][Next]_vars

\* One Close over several listeners, a connection and a session.
NextOrder ==
    \/ ServerNext({1}, Listeners, Conns, {1}, {"nil"})
    \/ HandlerNext(Conns, {1}, {<<>>})
    \/ \E s \in {1} : SessRoute(s, "", CmdLs)
    \/ CommandNext({1}, {FALSE}, {FALSE}, {FALSE})
    \/ NonPtyNext({1}, {1})

SpecOrder == InitDefault /\ [][NextOrder]_vars

\* Concurrent sessions of every type, each ended by the router, and one Close.
NextCounters ==
    \/ ServerNext({1}, {1}, Conns, Sessions, {"nil"})
    \/ HandlerNext(Conns, Sessions, {<<>>, EnvVSCode, EnvJetBrains, EnvBogus})
    \/ \E s \in Sessions : SessRoute(s, "other", CmdShell)

SpecCounters == InitDefault /\ [][NextCounters]_vars

\* One session with any requested environment, run as a command without a PTY.
NextEnviron ==
    \/ UpdateHostSigner
    \/ ServeStart(1)
    \/ TrackListenerAdd(1)
    \/ Accept(1, 1)
    \/ TrackConnAdd(1)
    \/ \E env \in Environs : SessionStart(1, 1, env)
    \/ TrackSessionAdd(1)
    \/ SessCount(1)
    \/ SessReport(1)
    \/ SessRoute(1, "", CmdLs)
    \/ CommandNext({1}, BOOLEAN, {FALSE}, {FALSE})
    \/ \E o \in {"ok", "stdin_pipe", "start_command"} : SessNonPtyStart(1, o)
    \/ TrackProcessAdd(1)
    \/ \E code \in ProcExitCodes : ProcExit(1, code)
    \/ SessNonPtyWait(1)
    \/ TrackProcessRemove(1)
    \/ SessDisconnected(1)
    \/ SessUncount(1)
    \/ TrackSessionRemove(1)

SpecEnviron == Init /\ [][NextEnviron]_vars

\* One PTY session with its output, a client that may go away, and one Close.
NextPty ==
    \/ NetworkNext({1}, {1}, {1})
    \/ ServerNext({1}, {1}, {1}, {1}, {"nil"})
    \/ HandlerNext({1}, {1}, {<<>>})
    \/ SessRoute(1, "", CmdShell)
    \/ CommandNext({1}, {FALSE}, {FALSE}, {TRUE})
    \/ PtyNext({1})
    \/ PtyOutputNext({1})
    \/ \E code \in ProcExitCodes : ProcExit(1, code)
    \/ ProcHungUp(1)

SpecPty == InitDefault /\ [][NextPty]_vars

\* What the Go scheduler guarantees: a goroutine that can take its next step
\* takes it. The steps of the goroutine that Shutdown starts, of Shutdown
\* itself, and of the Serve and connection handlers.
CloseStep(c) ==
    \/ close[c].shutdown.pc # "none" /\ CloseBegin(c)
    \/ CloseBlockedReturn(c)
    \/ CloseAdvance(c)
    \/ CloseListener(c, 1) \/ CloseConn(c, 1)
    \/ \E err \in {"nil", "srv close error"} : CloseSrv(c, err)
    \/ CloseUnlock(c) \/ CloseX11(c) \/ CloseWait(c) \/ CloseClear(c)

ShutdownStep(c) ==
    \/ ShutdownSend(c)
    \/ \E viaCtx \in BOOLEAN : ShutdownSelect(c, viaCtx)
    \/ ShutdownReturn(c)

HandlerStep ==
    \/ TrackListenerAdd(1) \/ ListenerUnpark(1) \/ AcceptError(1) \/ TrackListenerRemove(1)
    \/ TrackConnAdd(1) \/ HandleConnReturn(1) \/ TrackConnRemove(1)

\* Shutdown and Close calls over a listener and a connection.
NextShutdown ==
    \/ UpdateHostSigner
    \/ ServeStart(1) \/ TrackListenerAdd(1) \/ ListenerUnpark(1) \/ Accept(1, 1)
    \/ AcceptError(1) \/ TrackListenerRemove(1)
    \/ TrackConnAdd(1) \/ HandleConnReturn(1) \/ TrackConnRemove(1)
    \/ \E c \in Closers : CloseBegin(c) \/ CloseStep(c)
    \/ ShutdownNext(Closers)

SpecShutdown == InitDefault /\ [][NextShutdown]_vars

SpecShutdownFair ==
    /\ SpecShutdown
    /\ \A c \in Closers : WF_vars(CloseStep(c)) /\ WF_vars(ShutdownStep(c))
    /\ WF_vars(HandlerStep)

\* session.RawCommand() of the sessions that reach the command builder: up
\* to MaxScriptParts parts, each "#!", a space, a line break or a letter.
Scripts ==
    LET Parts == { <<"#","!">>, <<" ">>, <<"\n">>, <<"a">> }
        RECURSIVE Concat(_)
        Concat(parts) == IF parts = <<>> THEN <<>> ELSE Head(parts) \o Concat(Tail(parts))
    IN { Concat(p) : p \in UNION { [1..n -> Parts] : n \in 0..MaxScriptParts } }

CommandConfigs ==
    [BlockFileTransfer : {FALSE}, ExperimentalContainers : {FALSE}, UpdateEnv : {"same", "coder"},
     AnnouncementBanners : {<<>>}, MOTDFile : {<<>>}, fs : {NoFiles}]

\* One session, PTY or not, whose raw command is any script.
NextCommand ==
    \/ UpdateHostSigner
    \/ ServeStart(1)
    \/ TrackListenerAdd(1)
    \/ Accept(1, 1)
    \/ TrackConnAdd(1)
    \/ \E env \in {<<>>, << <<"P","A","T","H","=","/","b","i","n">> >>} : SessionStart(1, 1, env)
    \/ TrackSessionAdd(1)
    \/ SessCount(1)
    \/ SessReport(1)
    \/ \E script \in Scripts : SessRoute(1, "", script)
    \/ CommandNext({1}, {FALSE}, {FALSE}, BOOLEAN)
    \/ SessNonPtyStart(1, "start_command")
    \/ SessPtyStart(1, FALSE)
    \/ SessDisconnected(1)
    \/ SessUncount(1)
    \/ TrackSessionRemove(1)

InitCommand == InitWith(CommandConfigs)

SpecCommand == InitCommand /\ [][NextCommand]_vars

\* The client's signals and window changes, and the task that serves them.
FanInNext(SS) ==
    \/ \E s \in SS : ClientSignal(s)
    \/ \E s \in SS : ClientWindowChange(s)
    \/ \E s \in SS : WindowClosed(s)
    \/ \E s \in SS : FanInReceiveSignal(s)
    \/ \E s \in SS : FanInSignal(s)
    \/ \E s \in SS : FanInReceiveWindow(s)
    \/ \E s \in SS : FanInResize(s)
    \/ \E s \in SS, which \in {"sigs", "win"} : FanInRetire(s, which)

\* One PTY session, from its admission to the return of its handler.
PtySessionNext(Cmds) ==
    \/ UpdateHostSigner
    \/ ServeStart(1)
    \/ TrackListenerAdd(1)
    \/ Accept(1, 1)
    \/ TrackConnAdd(1)
    \/ SessionStart(1, 1, <<>>)
    \/ SessionCtxCancel(1)
    \/ TrackSessionAdd(1)
    \/ SessCount(1)
    \/ SessReport(1)
    \/ \E cmd \in Cmds : SessRoute(1, "", cmd)
    \/ CommandNext({1}, {FALSE}, {FALSE}, {TRUE})
    \/ PtyNext({1})
    \/ \E code \in ProcExitCodes : ProcExit(1, code)
    \/ ProcHungUp(1)
    \/ SessDisconnected(1)
    \/ SessUncount(1)
    \/ TrackSessionRemove(1)

\* One session whose close tracker is called in every order before the
\* dispatcher ends the session with its own Exit.
NextTracker ==
    \/ UpdateHostSigner
    \/ ServeStart(1)
    \/ TrackListenerAdd(1)
    \/ Accept(1, 1)
    \/ TrackConnAdd(1)
    \/ \E env \in {<<>>, EnvVSCode, EnvJetBrains} : SessionStart(1, 1, env)
    \/ TrackSessionAdd(1)
    \/ SessCount(1)
    \/ SessReport(1)
    \/ \E call \in TrackerCalls : SessTrackerCall(1, call)
    \/ \E sub \in {"sftp", "other"} : SessRoute(1, sub, CmdShell)
    \/ \E ok \in BOOLEAN : SessSftpStart(1, ok)
    \/ \E clean \in BOOLEAN : SessSftpDone(1, clean)
    \/ SessDisconnected(1)
    \/ SessUncount(1)
    \/ TrackSessionRemove(1)

SpecTracker == InitDefault /\ [][NextTracker]_vars

\* The steps of one Close call once it holds or waits for what it needs.
CloseRun(c) ==
    \/ CloseBlockedReturn(c)
    \/ CloseAdvance(c)
    \/ CloseListener(c, 1) \/ CloseSession(c, 1) \/ CloseConn(c, 1) \/ CloseProcess(c, 1)
    \/ \E err \in {"nil", "srv close error"} : CloseSrv(c, err)
    \/ CloseUnlock(c) \/ CloseX11(c) \/ CloseWait(c) \/ CloseClear(c)

\* The steps of Serve once it has been called.
ServeRun(l) ==
    TrackListenerAdd(l) \/ ListenerUnpark(l) \/ AcceptError(l) \/ TrackListenerRemove(l)

\* The steps of handleConn; HandleConn returns once the connection is closed.
ConnRun(c) ==
    TrackConnAdd(c) \/ HandleConnReturn(c) \/ TrackConnRemove(c)

\* The steps of sessionHandler and its runners; each waits only for its
\* process to end or its context to be done.
SessionRun(s) ==
    \/ TrackSessionAdd(s) \/ SessReject(s) \/ SessCount(s) \/ SessReport(s)
    \/ SessRoute(s, "", CmdLs)
    \/ \E handled \in BOOLEAN : SessX11(s, FALSE, handled)
    \/ \E isPty \in BOOLEAN, o \in {"ok", "create_command"} : SessSetup(s, FALSE, isPty, o)
    \/ \E o \in {"ok", "stdin_pipe", "start_command"} : SessNonPtyStart(s, o)
    \/ TrackProcessAdd(s) \/ SessNonPtyWait(s) \/ TrackProcessRemove(s)
    \/ \E ok \in BOOLEAN : SessPtyStart(s, ok)
    \/ \E copyErr \in BOOLEAN : SessPtyCopyDone(s, copyErr)
    \/ \E closeErr \in BOOLEAN : SessPtyWait(s, closeErr)
    \/ SessResult(s) \/ SessDisconnected(s) \/ SessUncount(s) \/ TrackSessionRemove(s)

\* A process ends once it was sent the terminate signal or its context, if
\* it is bound to one, is done.
ProcessRun(s) ==
    ProcHungUp(s) \/ ProcCtxKilled(s)

\* The server's life under a scheduler that lets every goroutine that can
\* take a step take it.
SpecCloseFair ==
    /\ Spec
    /\ \A c \in Closers : WF_vars(CloseRun(c))
    /\ WF_vars(ServeRun(1))
    /\ \A c \in Conns : WF_vars(ConnRun(c))
    /\ WF_vars(SessionRun(1))
    /\ WF_vars(ProcessRun(1))

\* The banners an administrator can set, up to MaxBanners of them.
BannerLists ==
    LET Kinds == { [Enabled |-> TRUE, Message |-> <<" ","a","\n","b">>],
                   [Enabled |-> TRUE, Message |-> <<>>],
                   [Enabled |-> FALSE, Message |-> <<"c">>] }
    IN UNION { [1..n -> Kinds] : n \in 0..MaxBanners }

\* The server's files: .hushlogin there or not, the home directory found or
\* not, the MOTD file missing, unreadable, or two lines of text.
FileSystems ==
    [Hushlogin : BOOLEAN, HomeDirErr : BOOLEAN,
     MOTD : { [st |-> "absent", text |-> <<>>],
              [st |-> "unreadable", text |-> <<>>],
              [st |-> "present", text |-> <<"m","\r","\n","n">>] }]

GreetConfigs ==
    [BlockFileTransfer : {FALSE}, ExperimentalContainers : {FALSE}, UpdateEnv : {"same"},
     AnnouncementBanners : BannerLists, MOTDFile : {<<>>, <<"/","m">>}, fs : FileSystems]

InitGreet == InitWith(GreetConfigs)

\* One PTY session, a login shell or a command, whose process starts, under
\* every configuration of banners and MOTD and every failing write.
NextGreet ==
    \/ UpdateHostSigner
    \/ ServeStart(1)
    \/ TrackListenerAdd(1)
    \/ Accept(1, 1)
    \/ TrackConnAdd(1)
    \/ SessionStart(1, 1, <<>>)
    \/ SessionCtxCancel(1)
    \/ TrackSessionAdd(1)
    \/ SessCount(1)
    \/ SessReport(1)
    \/ \E cmd \in {CmdShell, CmdLs} : SessRoute(1, "", cmd)
    \/ SessX11(1, FALSE, TRUE)
    \/ SessSetup(1, FALSE, TRUE, "ok")
    \/ SessPtyStart(1, TRUE)
    \/ \E copyErr \in BOOLEAN : SessPtyCopyDone(1, copyErr)
    \/ \E closeErr \in BOOLEAN : SessPtyWait(1, closeErr)
    \/ \E code \in ProcExitCodes : ProcExit(1, code)
    \/ ProcCtxKilled(1)
    \/ SessResult(1)
    \/ SessDisconnected(1)
    \/ SessUncount(1)
    \/ TrackSessionRemove(1)

SpecGreet == InitGreet /\ [][NextGreet]_vars

\* One PTY session whose client sends signals and window changes.
NextFanIn ==
    \/ PtySessionNext({CmdShell})
    \/ FanInNext({1})

SpecFanIn == InitDefault /\ [][NextFanIn]_vars

(***************************************************************************)
(* Properties of the tracker and of Close.                                 *)
(***************************************************************************)
TrackerSets == <<listeners, conns, sessions, processes>>

InProgress(c) ==
    close[c].pc \in {"listeners", "sessions", "conns", "processes", "srv", "unlock",
                     "x11", "wait", "clear"}

InDid(c, step, item) ==
    \E i \in 1..Len(close[c].did) : close[c].did[i] = <<step, item>>

NoAdmissionStep ==
    closing # 0 =>
      /\ listeners' \subseteq listeners
      /\ conns' \subseteq conns
      /\ sessions' \subseteq sessions
      /\ processes' \subseteq processes
      /\ wg' <= wg
      /\ \A c \in Conns :
           conn[c].pc = "track" /\ conn'[c].pc # "track"
             => conn'[c].pc = "done" /\ UNCHANGED <<TrackerSets, wg>>
      /\ \A s \in Sessions :
           sess[s].pc = "track" /\ sess'[s].pc # "track"
             => sess'[s].pc = "rejected" /\ UNCHANGED <<TrackerSets, wg>>
      /\ \A s \in Sessions :
           sess[s].pc = "trackp" /\ sess'[s].pc # "trackp"
             => sess'[s].pc = "result" /\ sess'[s].err = "other"
                /\ UNCHANGED <<TrackerSets, wg>>
      /\ \A l \in Listeners :
           serve[l].pc \in {"track", "parked"}
             => serve'[l].pc \in {"track", "parked"} /\ l \notin listeners'

\* C1: while closing is set nothing is added to a tracker set: an add of a
\* conn, a session or a process returns false and leaves the sets and the
\* wait-group as they were, and an add of a listener inserts nothing until
\* closing is nil again.
C1_NoAdmissionWhileClosing ==
    [][NoAdmissionStep]_vars

C1_Witness ==
    \E s \in Sessions : closing # 0 /\ sess[s].pc = "rejected" /\ s \notin sessions

ReentrantCloseState ==
    /\ \A c \in Closers :
         /\ close[c].pc = "blocked" \/ close[c].ret = "server is closed"
              => /\ close[c].did = <<>>
                 /\ mu # c
                 /\ closing # c
                 /\ close[c].waitOn \in Closers \ {c}
         /\ close[c].ret = "server is closed"
              => /\ close[close[c].waitOn].pc = "done"
                 /\ close[c].waitOn \in chanClosed
    /\ \A c1, c2 \in Closers : InProgress(c1) /\ InProgress(c2) => c1 = c2
    /\ closing = 0 <=> \A c \in Closers : ~InProgress(c)
    /\ \A c \in Closers : InProgress(c) => closing = c

FreshServeStep ==
    \A l \in Listeners :
      serve[l].pc = "track" /\ serve'[l].pc # "track" /\ closing = 0
        => serve'[l].pc = "accept" /\ l \in listeners' /\ wg' = wg + 1

\* C2: a Close called while another Close is in progress performs none of the
\* closing steps, blocks until the first caller has finished and returns
\* "server is closed"; once the first Close has returned closing is nil, and a
\* Serve that then registers a fresh listener is registered and enters its
\* accept loop.
C2_ReentrantClose ==
    [][ReentrantCloseState' /\ FreshServeStep]_vars

C2_Witness ==
    \E c1, c2 \in Closers, l \in Listeners :
      /\ close[c1].ret = "server is closed"
      /\ close[c2].pc = "done" /\ InDid(c2, "clear", 0)
      /\ closing = 0
      /\ serve[l].pc = "accept" /\ ~serve[l].closed /\ l \in listeners

CloseOrder == <<"listeners", "sessions", "conns", "processes", "srv", "x11",
                "wait", "clear">>

OrderRank(step) == CHOOSE i \in 1..Len(CloseOrder) : CloseOrder[i] = step

\* The closer has started a step of rank k or later.
Reached(c, k) ==
    \E i \in 1..Len(close[c].did) : OrderRank(close[c].did[i][1]) >= k

\* C3: Close closes the listeners, then the sessions, then the connections,
\* then signals the processes, then closes the SSH server, then the X11
\* forwarder, then waits for the wait-group, and only then clears closing; no
\* step starts before the step before it was applied to every tracked item.
C3_CloseOrder ==
    \A c \in Closers :
      LET d == close[c].did IN
      /\ \A i, j \in 1..Len(d) :
           i < j => d[i] # d[j] /\ OrderRank(d[i][1]) <= OrderRank(d[j][1])
      /\ InProgress(c) =>
           /\ closing = c
           /\ Reached(c, 2) \/ close[c].pc # "listeners"
                => \A l \in listeners : InDid(c, "listeners", l)
           /\ Reached(c, 3) \/ close[c].pc \notin {"listeners", "sessions"}
                => \A s \in sessions : InDid(c, "sessions", s)
           /\ Reached(c, 4) \/ close[c].pc \notin {"listeners", "sessions", "conns"}
                => \A n \in conns : InDid(c, "conns", n)
           /\ Reached(c, 5)
                \/ close[c].pc \notin {"listeners", "sessions", "conns", "processes"}
                => \A p \in processes : InDid(c, "processes", p)
           /\ Reached(c, 6) => InDid(c, "srv", 0) /\ mu # c
           /\ Reached(c, 7) => InDid(c, "x11", 0) /\ wg = 0
           /\ ~InDid(c, "clear", 0)
      /\ InDid(c, "clear", 0) =>
           /\ InDid(c, "wait", 0) /\ InDid(c, "x11", 0) /\ InDid(c, "srv", 0)
           /\ close[c].pc = "done"
           /\ closing # c

C3_Witness ==
    /\ close[1].pc = "done"
    /\ \A l \in Listeners : InDid(1, "listeners", l)
    /\ InDid(1, "sessions", 1) /\ InDid(1, "conns", 1) /\ InDid(1, "processes", 1)
    /\ InDid(1, "clear", 0)

\* C4: the process of a non-PTY session, once started and tracked, is never
\* terminated and never removed from the tracker by the end of the session
\* context; the server sends it the terminate signal only in a Close that
\* runs while it is tracked.
C4_NonPtyOutlivesContext ==
    \A s \in Sessions :
      ~sess[s].pty /\ proc[s].st # "none" =>
        /\ "ctx" \notin proc[s].hup
        /\ proc[s].hup \subseteq {"Close", "handler"}
        /\ "Close" \in proc[s].hup => \E c \in Closers : InDid(c, "processes", s)
        /\ "handler" \in proc[s].hup => s \notin processes /\ "Close" \notin proc[s].hup
        /\ proc[s].st = "exited" /\ proc[s].code = -1 => proc[s].hup # {}
        /\ sess[s].pc = "wait" => s \in processes
        /\ s \in processes => sess[s].pc \in {"wait", "untrackp"}
        /\ sess[s].pc = "untrackp" => proc[s].st = "exited"

C4_Witness ==
    \E s \in Sessions :
      /\ ~sess[s].pty /\ sess[s].ctxDone
      /\ s \in processes /\ proc[s].st = "running"
      /\ proc[s].hup = {"Close"}

(***************************************************************************)
(* Properties of the session dispatcher.                                   *)
(***************************************************************************)
\* The events of one kind in a session's log.
Events(r, kind) == SelectSeq(r.log, LAMBDA e : e[1] = kind)

Count(r, kind) == Len(Events(r, kind))

\* The handler has left the guard: what the client asked for has been read.
PastGuard(r) == r.admitted /\ r.pc \notin {"count", "report", "guard"}

\* The handler has emitted its status and runs its deferred calls.
Finished(r) == r.pc \in {"disconnect", "uncount", "untrack", "done"}

TransferCommandNames ==
    { <<"n","c">>, <<"r","s","y","n","c">>, <<"s","c","p">>, <<"s","f","t","p">> }

TransferAsked(r) ==
    \/ r.subsystem = "sftp"
    \/ r.command # <<>> /\ FilepathBase(r.command[1]) \in TransferCommandNames

\* C5: with BlockFileTransfer on, an admitted session for the sftp subsystem
\* or for a command whose first word has the base name nc, rsync, scp or sftp
\* ends with exit code 65 and starts no process, SFTP server, X11 forwarder
\* or agent listener; with BlockFileTransfer off no session is blocked.
C5_FileTransferBlocked ==
    \A s \in Sessions :
      LET r == sess[s] IN
      PastGuard(r) =>
        /\ config.BlockFileTransfer /\ TransferAsked(r) =>
             /\ Finished(r)
             /\ Events(r, "exit") = << <<"exit", 65>> >>
             /\ r.started = {}
             /\ proc[s].st = "none"
        /\ ~config.BlockFileTransfer =>
             /\ Count(r, "write") = 0
             /\ r.reason # "file transfer blocked"
             /\ Count(r, "exit") > 0 /\ Events(r, "exit")[1][2] = 65
                  => proc[s].st = "exited" /\ proc[s].code = 65

C5_Witness ==
    \E s \in Sessions :
      /\ config.BlockFileTransfer
      /\ sess[s].pc = "done" /\ sess[s].admitted
      /\ sess[s].subsystem = "" /\ sess[s].rawCommand = CmdScp
      /\ Events(sess[s], "exit") = << <<"exit", 65>> >>

\* What the session was sent: its writes and its exit statuses, in order.
Sent(r) == SelectSeq(r.log, LAMBDA e : e[1] \in {"write", "exit"})

\* C6: a blocked session is written the bytes \x02 "File transfer has been
\* disabled." \n exactly when its subsystem is empty; with the sftp subsystem
\* nothing is written before exit status 65.
C6_BlockedMessage ==
    \A s \in Sessions :
      LET r == sess[s] IN
      PastGuard(r) /\ fileTransferBlocked(config, r) =>
        IF r.subsystem = ""
        THEN Sent(r) = << <<"write", <<"\\x02", "File transfer has been disabled.", "\\n">> >>,
                          <<"exit", 65>> >>
        ELSE Sent(r) = << <<"exit", 65>> >>

C6_Witness ==
    \E s \in Sessions :
      /\ PastGuard(sess[s]) /\ fileTransferBlocked(config, sess[s])
      /\ sess[s].subsystem = "sftp"
      /\ sess[s].log # <<>>
      /\ sess[s].log[Len(sess[s].log)] = <<"exit", 65>>

\* The admitted exec sessions that got as far as sessionStart.
ReachedRunner(r) ==
    /\ PastGuard(r)
    /\ r.subsystem = ""
    /\ ~fileTransferBlocked(config, r)
    /\ r.pc \notin {"x11", "start"}
    /\ ~(r.x11 /\ "x11" \notin r.started)

\* C7: an exec session that reaches the runner is sent the process's exit
\* code when the runner returns an exit error with a code other than -1, 255
\* when that code is -1, 229 for any other error, 0 for no error; and exactly
\* one status.
C7_ExitStatus ==
    \A s \in Sessions :
      LET r == sess[s] IN
      ReachedRunner(r) =>
        /\ ~Finished(r) => Count(r, "exit") = 0
        /\ Finished(r) =>
             /\ Count(r, "exit") = 1
             /\ r.err = "exit" /\ r.exitErr # -1
                  => /\ Events(r, "exit")[1][2] = r.exitErr
                     /\ proc[s].st = "exited" /\ proc[s].code = r.exitErr
             /\ r.err = "exit" /\ r.exitErr = -1 => Events(r, "exit")[1][2] = 255
             /\ r.err = "other" => Events(r, "exit")[1][2] = 229
             /\ r.err = "nil" => Events(r, "exit")[1][2] = 0

C7_Witness ==
    \E s \in Sessions :
      /\ ReachedRunner(sess[s]) /\ sess[s].pc = "done"
      /\ sess[s].err = "exit" /\ sess[s].exitErr = -1
      /\ Events(sess[s], "exit") = << <<"exit", 255>> >>

\* C8 as stated: ReportConnection is invoked if and only if the session was
\* admitted, and disconnected exactly once for every admitted session.
C8_ReportIffAdmitted ==
    \A s \in Sessions :
      LET r == sess[s] IN
      r.pc = "done" =>
        /\ Count(r, "report") > 0 <=> r.admitted
        /\ r.admitted => Count(r, "disconnected") = 1

\* C8: ReportConnection is invoked exactly once for every session handed to
\* the dispatcher, rejected ones included, except an admitted JetBrains
\* session, for which it is not invoked; disconnected is invoked exactly once
\* for a session that was reported and never for one that was not.
C8_ReportedSessions ==
    \A s \in Sessions :
      LET r == sess[s]
          expected == IF r.admitted /\ r.magicType = MagicSessionTypeJetBrains
                      THEN 0 ELSE 1
      IN /\ Count(r, "report") <= expected
         /\ Count(r, "disconnected") <= Count(r, "report")
         /\ PastGuard(r) \/ r.pc = "guard" \/ r.pc = "done"
              => Count(r, "report") = expected
         /\ r.pc = "done" => Count(r, "disconnected") = Count(r, "report")

C8_Witness ==
    \E s \in Sessions :
      /\ sess[s].pc = "done" /\ ~sess[s].admitted
      /\ Count(sess[s], "report") = 1 /\ Count(sess[s], "disconnected") = 1

\* C9: on every path of the dispatcher a ReportConnection is followed by
\* exactly one call of the disconnected it returned, made after the session's
\* final exit code and reason are known.
C9_DisconnectedLast ==
    \A s \in Sessions :
      LET r == sess[s]
          n == Len(r.log)
      IN /\ Count(r, "disconnected") <= Count(r, "report")
         /\ Count(r, "report") <= 1
         /\ r.pc = "done" => Count(r, "disconnected") = Count(r, "report")
         /\ Count(r, "disconnected") = 1 =>
              /\ r.log[n][1] = "disconnected"
              /\ \E i \in 1..(n - 1) : r.log[i][1] = "report"
              /\ r.admitted => r.log[n] = <<"disconnected", r.code, r.reason>>
              /\ r.admitted /\ Count(r, "exit") > 0
                   => r.log[n][2] = Events(r, "exit")[1][2]
              /\ ~r.admitted =>
                   r.log[n] = <<"disconnected", 1,
                                "unable to accept new session, server is closing">>

C9_Witness ==
    \E s \in Sessions :
      /\ sess[s].pc = "done" /\ sess[s].admitted
      /\ Count(sess[s], "report") = 1
      /\ sess[s].log[Len(sess[s].log)] = <<"disconnected", 229, "other">>

(***************************************************************************)
(* Properties of the connection counters.                                  *)
(***************************************************************************)
\* The admitted sessions of a type whose handler has not returned.
Live(which) ==
    {s \in Sessions : sess[s].admitted /\ sess[s].pc # "done" /\ sess[s].magicType = which}

\* Those of them between the increment and the deferred decrement.
Counted(which) ==
    {s \in Live(which) : sess[s].pc \notin {"count", "untrack"}}

\* C10 as stated: each counter always equals the number of admitted sessions
\* of its type whose handler has not returned.
C10_CountersEqualLive ==
    /\ connCountVSCode = Cardinality(Live(MagicSessionTypeVSCode))
    /\ connCountSSHSession = Cardinality(Live(MagicSessionTypeSSH))

\* C10: each counter equals the number of admitted sessions of its type that
\* are between their increment and their deferred decrement, so it is never
\* negative, never more than the admitted sessions of that type whose handler
\* has not returned, and back at its first value once every handler has
\* returned; JetBrains, unknown and rejected sessions change no counter.
C10_CountersEqualCounted ==
    /\ connCountVSCode = Cardinality(Counted(MagicSessionTypeVSCode))
    /\ connCountSSHSession = Cardinality(Counted(MagicSessionTypeSSH))
    /\ connCountVSCode >= 0 /\ connCountSSHSession >= 0
    /\ connCountVSCode <= Cardinality(Live(MagicSessionTypeVSCode))
    /\ connCountSSHSession <= Cardinality(Live(MagicSessionTypeSSH))
    /\ (\A s \in Sessions : sess[s].pc \in {"idle", "done"})
         => connCountVSCode = 0 /\ connCountSSHSession = 0

C10_Witness ==
    \E s1, s2 \in Sessions :
      /\ sess[s1].pc = "done" /\ sess[s1].admitted
      /\ sess[s1].magicType = MagicSessionTypeVSCode
      /\ s2 \in Counted(MagicSessionTypeSSH)
      /\ connCountVSCode = 0 /\ connCountSSHSession = 1

(***************************************************************************)
(* Properties of the environment the dispatcher reads and passes on.       *)
(***************************************************************************)
\* The name of an entry: what stands before its first "=".
RECURSIVE KeyOf(_)
KeyOf(kv) ==
    IF kv = <<>> \/ Head(kv) = "=" THEN <<>>
    ELSE <<Head(kv)>> \o KeyOf(Tail(kv))

\* The value of an entry: what stands after its first "=".
ValueOf(kv) == SubSeq(kv, Len(KeyOf(kv)) + 2, Len(kv))

MagicKeys ==
    { MagicSessionTypeEnvironmentVariable, ContainerEnvironmentVariable,
      ContainerUserEnvironmentVariable }

\* The requested entries with another name, in the order they were sent.
OtherEntries(environ) ==
    SelectSeq(environ, LAMBDA kv : KeyOf(kv) \notin MagicKeys)

\* The session is at sessionStart or beyond it: its env is the one the
\* command builder is given.
EnvHandedOn(r) ==
    /\ PastGuard(r)
    /\ r.subsystem = ""
    /\ ~fileTransferBlocked(config, r)
    /\ r.pc # "x11"
    /\ ~(r.x11 /\ "x11" \notin r.started)

\* C11: the environment handed to the command builder holds no entry named
\* CODER_SSH_SESSION_TYPE, CODER_CONTAINER or CODER_CONTAINER_USER, with the
\* experimental container mode on or off, and holds every other requested
\* entry in its original order.
C11_MagicEntriesRemoved ==
    \A s \in Sessions :
      LET r == sess[s] IN
      EnvHandedOn(r) =>
        /\ \A i \in 1..Len(r.env) : KeyOf(r.env[i]) \notin MagicKeys
        /\ SubSeq(r.env, 1, Len(OtherEntries(r.environ))) = OtherEntries(r.environ)
        /\ Len(r.env) = Len(OtherEntries(r.environ)) + (IF r.x11 THEN 1 ELSE 0)

C11_Witness ==
    \E s \in Sessions :
      /\ EnvHandedOn(sess[s])
      /\ ~config.ExperimentalContainers
      /\ Len(sess[s].environ) = 2
      /\ KeyOf(sess[s].environ[1]) = ContainerUserEnvironmentVariable
      /\ sess[s].env = << <<"P","A","T","H","=","/","b","i","n">> >>

\* The entries named CODER_SSH_SESSION_TYPE exactly, in the order sent.
TypeEntries(environ) ==
    SelectSeq(environ, LAMBDA kv : KeyOf(kv) = MagicSessionTypeEnvironmentVariable)

\* The type that the value of the last such entry stands for.
TypeOfLastEntry(environ) ==
    LET es == TypeEntries(environ)
        v == IF es = <<>> THEN <<>> ELSE ToLower(ValueOf(es[Len(es)]))
    IN CASE v = <<"v","s","c","o","d","e">> -> "vscode"
         [] v = <<"j","e","t","b","r","a","i","n","s">> -> "jetbrains"
         [] v = <<>> \/ v = <<"s","s","h">> -> "ssh"
         [] OTHER -> "unknown"

\* C12: the session type is decided only by the value of the last entry
\* named CODER_SSH_SESSION_TYPE exactly, compared without regard to case:
\* vscode, jetbrains, ssh (also for an empty value or no such entry), else
\* unknown; an entry with another name, even one that begins with
\* CODER_SSH_SESSION_TYPE, never changes it.
C12_TypeFromExactKey ==
    \A s \in Sessions :
      sess[s].pc # "idle" => sess[s].magicType = TypeOfLastEntry(sess[s].environ)

(***************************************************************************)
(* Properties of the PTY runner.                                           *)
(***************************************************************************)
\* C13 as stated: a PTY session's exit status is always sent after every
\* byte its process wrote to the PTY has been written to the session.
C13_ExitAfterAllOutput ==
    \A s \in Sessions :
      sess[s].pty /\ Count(sess[s], "exit") > 0 => sess[s].copied = proc[s].out

\* C13: in a PTY session the runner waits on the process only after the
\* output copy has ended without error, having written every byte the process
\* wrote; no exit status is sent while the copy runs; an exit status sent
\* before all output was written is the 229 of a copy that failed.
C13_WaitAfterCopy ==
    \A s \in Sessions :
      LET r == sess[s] IN
      r.pty /\ proc[s].st # "none" =>
        /\ r.pc = "ptyWait" => proc[s].st = "exited" /\ r.copied = proc[s].out
        /\ r.copied <= proc[s].out
        /\ r.pc \in {"ptyCopy", "ptyWait"} => Count(r, "exit") = 0
        /\ Count(r, "exit") > 0 =>
             \/ r.copied = proc[s].out /\ proc[s].st = "exited"
             \/ r.err = "other" /\ Events(r, "exit") = << <<"exit", 229>> >>

C13_Witness ==
    \E s \in Sessions :
      /\ sess[s].pty /\ sess[s].pc = "done"
      /\ proc[s].out = MaxOutput /\ sess[s].copied = MaxOutput
      /\ Events(sess[s], "exit") = << <<"exit", 0>> >>

(***************************************************************************)
(* Properties of the command builder.                                      *)
(***************************************************************************)
\* The session's raw command has been through CreateCommand proper (past
\* CommandEnv).
Built(r) == r.cmd.st = "ok" \/ r.pc = "panic"

\* The words of the shebang line of a script whose trimmed text starts "#!".
ShebangWords(script) ==
    Fields(TrimPrefix(TrimSpace(FirstLine(TrimSpace(script))), <<"#","!">>))

\* The last n entries of env.
LastOf(env, n) == SubSeq(env, Len(env) - n + 1, Len(env))

\* C14: for every raw command the builder produces a command: for a
\* non-empty raw command argv is [shell, "-c", raw command], or, when the
\* trimmed raw command starts with "#!", the words of the shebang line
\* followed by "-c" and the unmodified raw command; for an empty raw command
\* argv is [shell, "-l"]; the env is what UpdateEnv gave followed by SSH_CLIENT
\* and SSH_CONNECTION (and SSH_AUTH_SOCK when an agent listener was started).
C14_BuilderArgv ==
    \A s \in Sessions :
      LET r == sess[s]
          raw == r.rawCommand
          n == Len(r.cmd.argv)
          own == IF "agent" \in r.started THEN 3 ELSE 2
          all == r.cmd.env
          env == IF all # <<>> /\ HasPrefix(all[Len(all)], <<"T","E","R","M","=">>)
                 THEN SubSeq(all, 1, Len(all) - 1) ELSE all
      IN Built(r) =>
           /\ r.cmd.st = "ok"
           /\ raw = <<>> => r.cmd.argv = <<User.Shell, <<"-","l">> >>
           /\ raw # <<>> =>
                /\ n >= 3
                /\ r.cmd.argv[n] = raw
                /\ r.cmd.argv[n - 1] = <<"-","c">>
                /\ SubSeq(r.cmd.argv, 1, n - 2) =
                     IF HasPrefix(TrimSpace(raw), <<"#","!">>)
                     THEN ShebangWords(raw) ELSE <<User.Shell>>
           /\ Len(env) >= own
           /\ SubSeq(LastOf(env, own), 1, 2) = SSHEnv
           /\ SubSeq(env, 1, Len(env) - own) =
                UpdateEnv(config, User.Environ \o r.env
                            \o << <<"U","S","E","R","=","u">>,
                                  <<"L","O","G","N","A","M","E","=","u">>,
                                  <<"S","H","E","L","L","=","/","b","i","n","/","s","h">> >>)

(***************************************************************************)
(* Properties of the router.                                               *)
(***************************************************************************)
\* C15: an admitted session that the guard does not block is routed by its
\* subsystem alone: none goes to the exec path (the PTY runner when a PTY was
\* requested, else the non-PTY runner); sftp goes to the SFTP runner, except
\* that with experimental containers on and a container set it ends with
\* exit 1 and no SFTP server; any other subsystem ends with exit 1 and nothing
\* started; a session the guard blocks is never routed.
C15_RoutedBySubsystem ==
    \A s \in Sessions :
      LET r == sess[s]
          Nothing == r.started = {} /\ proc[s].st = "none"
      IN PastGuard(r) =>
           IF fileTransferBlocked(config, r)
           THEN Finished(r) /\ Nothing /\ r.container = <<>>
           ELSE /\ r.subsystem = "" =>
                     /\ r.pc \notin {"sftp", "sftpServe"} /\ "sftp" \notin r.started
                     /\ r.pc \in {"pty", "ptyCopy", "ptyWait"} => r.pty
                     /\ r.pc \in {"nonpty", "trackp", "wait", "untrackp"} => ~r.pty
                     /\ proc[s].st # "none" => r.pty = proc[s].cancel
                /\ r.subsystem = "sftp" =>
                     /\ r.pc \in {"sftp", "sftpServe"} \/ Finished(r)
                     /\ r.started \subseteq {"sftp"} /\ proc[s].st = "none"
                     /\ IF config.ExperimentalContainers /\ r.container # <<>>
                        THEN /\ Finished(r) /\ Nothing
                             /\ Events(r, "exit") = << <<"exit", 1>> >>
                        ELSE r.pc = "sftpServe" => "sftp" \in r.started
                /\ r.subsystem \notin {"", "sftp"} =>
                     /\ Finished(r) /\ Nothing
                     /\ Events(r, "exit") = << <<"exit", 1>> >>

C15_Witness ==
    \E s \in Sessions :
      /\ config.ExperimentalContainers /\ ~config.BlockFileTransfer
      /\ sess[s].admitted /\ sess[s].pc = "done"
      /\ sess[s].subsystem = "sftp" /\ sess[s].container # <<>>
      /\ sess[s].started = {}
      /\ Events(sess[s], "exit") = << <<"exit", 1>> >>

(***************************************************************************)
(* Properties of Shutdown.                                                 *)
(***************************************************************************)
\* What a Shutdown that has returned answers, and what its Close did.
ShutdownAnswer ==
    \A c \in Closers :
      LET sd == close[c].shutdown IN
      /\ sd.pc = "returned" =>
           /\ sd.ctxDone \/ close[c].pc = "done"
           /\ sd.ctxDone => sd.ret = "close server: ctx"
           /\ ~sd.ctxDone =>
                sd.ret = IF close[c].ret = "nil" THEN "nil"
                         ELSE "close server: " \o close[c].ret
      /\ sd.pc # "none" /\ close[c].pc = "done" /\ close[c].ret # "server is closed" =>
           /\ \A ph \in {"srv", "x11", "wait", "clear"} : InDid(c, ph, 0)
           /\ closing # c

\* C16: Shutdown returns once its Close has finished or its context is
\* cancelled, and only then; with the context cancelled it returns an error
\* wrapping the context's error, even if Close has completed; the Close that
\* Shutdown started is not interrupted: it runs every step, returns, and
\* leaves closing cleared.
C16_Shutdown ==
    /\ []ShutdownAnswer
    /\ \A c \in Closers :
         /\ (close[c].shutdown.pc = "select"
               /\ (close[c].shutdown.ctxDone \/ close[c].pc = "done"))
              ~> (close[c].shutdown.pc = "returned")
         /\ (close[c].shutdown.pc # "none") ~> (close[c].pc = "done" /\ closing # c)

C16_Witness ==
    \E c \in Closers :
      /\ close[c].shutdown.pc = "returned"
      /\ close[c].shutdown.ret = "close server: ctx"
      /\ close[c].shutdown.err = "nil"
      /\ close[c].pc = "done" /\ InDid(c, "clear", 0)

(***************************************************************************)
(* Properties of Serve.                                                    *)
(***************************************************************************)
\* A listener is tracked exactly while its Serve is between registration and
\* return; a Serve that returned did so for want of a host key, untouched, or
\* with the Accept error, its listener closed and removed.
ServeTracked ==
    \A l \in Listeners :
      /\ l \in listeners <=> serve[l].pc \in {"accept", "untrack"}
      /\ serve[l].pc = "done" =>
           IF serve[l].ret = "no host keys set"
           THEN ~serve[l].closed /\ \A c \in Conns : conn[c].l # l
           ELSE serve[l].ret = "accept error" /\ serve[l].closed /\ l \notin listeners

\* The step of a Serve that returns at once is the one that found no host key,
\* and it leaves the tracker, the wait group and the connections alone.
NoHostKeyStep ==
    \A l \in Listeners :
      /\ serve[l].pc = "idle" /\ hostSigners = 0 /\ serve'[l].pc # "idle" =>
           /\ serve'[l].pc = "done" /\ serve'[l].ret = "no host keys set"
           /\ UNCHANGED <<listeners, wg, conn>>
      /\ serve[l].pc = "idle" /\ serve'[l].pc = "done" => hostSigners = 0
      /\ serve[l].pc # "done" /\ serve'[l].pc = "done" /\ serve[l].pc # "idle" =>
           /\ l \in listeners /\ l \notin listeners' /\ wg' = wg - 1
           /\ serve[l].ret = "accept error" /\ serve'[l].ret = "accept error"

\* C17: Serve with no host key returns an error without registering the
\* listener, changing the wait group or accepting; otherwise the listener is
\* in the tracker exactly from registration until Serve returns, and when
\* Accept fails Serve returns that error after the listener is closed and
\* removed from the tracker.
C17_Serve ==
    []ServeTracked /\ [][NoHostKeyStep]_vars

C17_Witness ==
    \E l \in Listeners :
      /\ serve[l].pc = "done" /\ serve[l].ret = "accept error"
      /\ closing = 0 /\ \A c \in Closers : close[c].pc = "idle"
      /\ wg = 0

(***************************************************************************)
(* Properties of the process tracker.                                      *)
(***************************************************************************)
\* C18 as stated: the process of a PTY session is in the process tracker for
\* as long as the runner is running it.
C18_PtyProcessTracked ==
    \A s \in Sessions :
      sess[s].pty /\ sess[s].pc \in {"ptyCopy", "ptyWait"} => s \in processes

\* C18: the process of a PTY session is never in the process tracker and is
\* never signalled by Close's loop over the tracked processes; it is bound to
\* the session context, and what ends it is the end of that context or the
\* closing of the PTY when the runner returns.
C18_PtyProcessNeverTracked ==
    \A s \in Sessions :
      sess[s].pty /\ proc[s].st # "none" =>
        /\ s \notin processes
        /\ proc[s].cancel
        /\ proc[s].hup \subseteq {"ctx", "ptyClose"}
        /\ \A c \in Closers : ~InDid(c, "processes", s)

C18_Witness ==
    \E s \in Sessions, c \in Closers :
      /\ sess[s].pty /\ sess[s].pc = "ptyCopy" /\ proc[s].st = "running"
      /\ s \in sessions
      /\ close[c].pc = "wait" /\ InDid(c, "sessions", s)

(***************************************************************************)
(* Properties of the tracker lock.                                         *)
(***************************************************************************)
\* Close call c takes a step that closes a listener, a session or a
\* connection, signals a process or closes the SSH library server.
IOStep(c) ==
    /\ Len(close'[c].did) = Len(close[c].did) + 1
    /\ close'[c].did[Len(close'[c].did)][1]
         \in {"listeners", "sessions", "conns", "processes", "srv"}

\* Close call c waits for the wait group: from after the X11 forwarder is
\* closed until the wait returns.
Waiting(c) == close[c].pc = "wait"

\* C19 as stated: the lock is not held while Close waits for the wait group,
\* nor by any operation across an I/O action.
C19_LockNeverAcrossIO ==
    [][\A c \in Closers : (IOStep(c) \/ Waiting(c)) => mu = 0]_vars

\* Who holds the lock: nobody, or the one Close call that is between
\* installing closing and its Unlock.
LockState ==
    \A c \in Closers :
      /\ mu = c <=> close[c].pc \in {"listeners", "sessions", "conns", "processes",
                                     "srv", "unlock"}
      /\ Waiting(c) \/ close[c].pc \in {"x11", "clear"} => mu = 0
      /\ mu \in Closers \cup {0}

\* Close does its I/O with the lock held; the lock changes hands only when a
\* Close installs closing and when it unlocks; every other step of every
\* operation begins and ends with the lock free.
LockStep ==
    /\ \A c \in Closers :
         /\ IOStep(c) => mu = c /\ mu' = c
         /\ Waiting(c) /\ close'[c].pc # close[c].pc => mu = 0 /\ mu' = 0 /\ wg = 0
    /\ mu' # mu =>
         \E c \in Closers :
           \/ mu = 0 /\ mu' = c /\ close[c].pc = "idle" /\ closing = 0 /\ closing' = c
           \/ mu = c /\ mu' = 0 /\ close[c].pc = "unlock"
    /\ mu # 0 /\ mu' = mu =>
         UNCHANGED <<listeners, conns, sessions, processes, closing, wg, hostSigners>>

\* C19: the tracker lock is never held while Close waits for the wait group,
\* and no operation but Close holds it across a step; Close holds it from
\* installing closing until it has closed every listener, session and
\* connection, signalled every tracked process and closed the SSH library
\* server, and while it holds it nothing else reads or changes the tracker.
C19_LockHeldByCloseOnly ==
    []LockState /\ [][LockStep]_vars

C19_Witness ==
    \E c \in Closers :
      /\ Waiting(c) /\ mu = 0 /\ wg > 0
      /\ InDid(c, "listeners", 1) /\ InDid(c, "processes", 1) /\ InDid(c, "srv", 0)

(***************************************************************************)
(* Properties of the rejected session.                                     *)
(***************************************************************************)
\* A session that was refused is outside the tracker; once its handler has
\* returned it has been reported, closed without an exit status, and its
\* disconnect reported with code 1 and the closing reason; it asked nothing of
\* the guard or the router and started nothing.
RejectedState ==
    \A s \in Sessions :
      LET r == sess[s] IN
      /\ r.pc = "rejected" => s \notin sessions /\ ~r.admitted /\ r.log = <<>>
      /\ r.pc = "done" /\ ~r.admitted =>
           /\ s \notin sessions
           /\ r.log = << <<"report">>, <<"close">>,
                         <<"disconnected", 1,
                           "unable to accept new session, server is closing">> >>
           /\ ~r.wrapped /\ r.subsystem = "" /\ r.rawCommand = <<>>
           /\ r.cmd.st = "none" /\ r.started = {} /\ proc[s].st = "none"

\* A session is refused only while the server is closing, and neither the
\* refusal nor the rest of its handler touches the tracker, the wait group or
\* a counter; the refused handler's only next step is its return.
RejectedStep ==
    \A s \in Sessions :
      /\ sess[s].pc = "track" /\ sess'[s].pc # "track" =>
           IF closing # 0
           THEN sess'[s].pc = "rejected" /\ UNCHANGED <<sessions, wg, counters>>
           ELSE sess'[s].pc = "count" /\ s \in sessions'
      /\ sess[s].pc = "rejected" /\ sess'[s] # sess[s] =>
           /\ sess'[s].pc = "done"
           /\ UNCHANGED <<listeners, conns, sessions, processes, wg, counters>>

\* C20: a session that reaches the dispatcher while the server is closing is
\* not admitted: it is closed with the underlying Close and sent no exit
\* status, its disconnect is reported with code 1 and a reason saying the
\* server is closing, it changes no counter, is never added to the session
\* tracker or the wait group, and never reaches the guard, the router or a
\* runner.
C20_RejectedWhileClosing ==
    []RejectedState /\ [][RejectedStep]_vars

C20_Witness ==
    \E s \in Sessions :
      /\ sess[s].pc = "done" /\ ~sess[s].admitted
      /\ sess[s].magicType = MagicSessionTypeVSCode
      /\ Count(sess[s], "disconnected") = 1 /\ Count(sess[s], "exit") = 0
      /\ connCountVSCode = 0 /\ closing # 0

(***************************************************************************)
(* Properties of the wait group.                                           *)
(***************************************************************************)
\* The resources whose add succeeded and whose remove has not yet run, by
\* the position of the thread that owns each.
Registered ==
    /\ \A l \in Listeners : l \in listeners <=> serve[l].pc \in {"accept", "untrack"}
    /\ \A c \in Conns : c \in conns <=> conn[c].pc \in {"handle", "untrack"}
    /\ \A s \in Sessions :
         /\ s \in sessions <=> sess[s].admitted /\ sess[s].pc # "done"
         /\ s \in processes <=> sess[s].pc \in {"wait", "untrackp"}
         /\ sess[s].pc \in {"rejected"} => ~sess[s].admitted

WaitGroupBalance ==
    /\ wg >= 0
    /\ wg = Cardinality(listeners) + Cardinality(conns)
              + Cardinality(sessions) + Cardinality(processes)

\* The entries that a step puts into, or takes out of, the four sets.
Added ==
    <<listeners' \ listeners, conns' \ conns, sessions' \ sessions, processes' \ processes>>

Removed ==
    <<listeners \ listeners', conns \ conns', sessions \ sessions', processes \ processes'>>

Size(four) ==
    Cardinality(four[1]) + Cardinality(four[2]) + Cardinality(four[3]) + Cardinality(four[4])

\* A step changes the wait group by one, with one entry added or removed by
\* the thread that owns it, or leaves group and sets alone; an add that
\* fails ends its thread's dealings with the tracker.
WaitGroupStep ==
    /\ \/ wg' = wg + 1 /\ Size(Added) = 1 /\ Size(Removed) = 0
       \/ wg' = wg - 1 /\ Size(Added) = 0 /\ Size(Removed) = 1
       \/ wg' = wg /\ Size(Added) = 0 /\ Size(Removed) = 0
    /\ \A l \in Listeners :
         /\ l \in Added[1] => serve[l].pc = "track" /\ serve'[l].pc = "accept"
         /\ l \in Removed[1] => serve[l].pc = "untrack" /\ serve'[l].pc = "done"
    /\ \A c \in Conns :
         /\ c \in Added[2] => conn[c].pc = "track" /\ conn'[c].pc = "handle"
         /\ c \in Removed[2] => conn[c].pc = "untrack" /\ conn'[c].pc = "done"
         /\ conn[c].pc = "track" /\ c \notin Added[2] => conn'[c].pc \in {"track", "done"}
         /\ conn[c].pc = "done" => conn'[c].pc = "done"
    /\ \A s \in Sessions :
         /\ s \in Added[3] => sess[s].pc = "track" /\ sess'[s].pc = "count"
         /\ s \in Removed[3] => sess[s].pc = "untrack" /\ sess'[s].pc = "done"
         /\ sess[s].pc = "track" /\ s \notin Added[3] => sess'[s].pc \in {"track", "rejected"}
         /\ sess[s].pc = "rejected" => sess'[s].pc \in {"rejected", "done"}
         /\ sess[s].pc = "done" => sess'[s].pc = "done"
         /\ s \in Added[4] => sess[s].pc = "trackp" /\ sess'[s].pc = "wait"
         /\ s \in Removed[4] => sess[s].pc = "untrackp" /\ sess'[s].pc = "result"
         /\ sess[s].pc = "trackp" /\ s \notin Added[4] => sess'[s].pc \in {"trackp", "result"}
         /\ sess[s].pc \in {"result", "disconnect", "uncount"} => s \notin Added[4] \cup Removed[4]

\* C21: across the interleavings of Serve, the connection and session
\* handlers and the non-PTY runner, every add that succeeds raises the wait
\* group by one and is undone by one remove, made by the same thread, that
\* lowers it by one; an add that fails is followed by no remove; the wait
\* group is never negative and equals the number of entries of the four
\* tracker sets.
C21_WaitGroupBalanced ==
    [](Registered /\ WaitGroupBalance) /\ [][WaitGroupStep]_vars

C21_Witness ==
    /\ wg = 0
    /\ \A l \in Listeners : serve[l].pc = "done" /\ serve[l].ret = "accept error"
    /\ conn[1].pc = "done" /\ sess[1].pc = "done" /\ sess[1].admitted
    /\ proc[1].st = "exited" /\ "Close" \in proc[1].hup
    /\ close[1].pc = "done"

(***************************************************************************)
(* Properties of the admission of connections.                             *)
(***************************************************************************)
\* The step in which handleConn gets its answer from trackConn: admitted
\* exactly when closing is nil and the accepting listener is tracked, else
\* refused, closed and returned, with the tracker as it was; the SSH library
\* handles a connection only from such an admission on.
ConnAdmissionStep ==
    \A c \in Conns :
      /\ conn[c].pc = "track" /\ conn'[c].pc # "track" =>
           IF closing = 0 /\ conn[c].l \in listeners
           THEN /\ conn'[c].pc = "handle" /\ conn'[c].admitted
                /\ conns' = conns \cup {c} /\ wg' = wg + 1
           ELSE /\ conn'[c].pc = "done" /\ conn'[c].closed /\ ~conn'[c].admitted
                /\ UNCHANGED <<listeners, conns, sessions, processes, wg, sess>>
      /\ conn'[c].pc = "handle" /\ conn[c].pc # "handle" => conn[c].pc = "track"
      /\ conn'[c].admitted /\ ~conn[c].admitted => conn[c].pc = "track"

\* A Close that has completed and had closed the listener of a connection:
\* the connection was accepted before that Close closed the listener.
ClosedUnder(c, cl) ==
    /\ conn[c].l # 0
    /\ InDid(cl, "listeners", conn[c].l)
    /\ InDid(cl, "clear", 0)

ConnAdmissionState ==
    \A c \in Conns :
      /\ ~conn[c].admitted =>
           /\ c \notin conns
           /\ conn[c].pc \in {"idle", "track", "done"}
           /\ \A s \in Sessions : sess[s].conn # c
           /\ conn[c].pc = "done" => conn[c].closed
      /\ conn[c].admitted => conn[c].l # 0
      /\ c \in conns => conn[c].admitted
      /\ \A cl \in Closers :
           ClosedUnder(c, cl) =>
             /\ conn[c].l \notin listeners
             /\ conn[c].pc = "track" => ~TrackConnOk(conn[c].l)
             /\ c \notin conns
             /\ conn[c].pc \in {"track", "done"}

\* C22: a connection is admitted only if, when trackConn runs, closing is
\* nil and the listener that accepted it is in the listener set; otherwise
\* it is refused, never handled by the SSH library, and closed by its
\* handler. A connection accepted before a Close closed its listener is not
\* admitted once that Close has completed and closing is nil again.
C22_ConnAdmission ==
    []ConnAdmissionState /\ [][ConnAdmissionStep]_vars

C22_Witness ==
    \E c \in Conns, cl \in Closers :
      /\ ClosedUnder(c, cl)
      /\ closing = 0 /\ \A k \in Closers : ~InProgress(k)
      /\ conn[c].pc = "track" /\ ~conn[c].closed
      /\ serve[conn[c].l].pc = "done" /\ wg = 0

(***************************************************************************)
(* Properties of the parked Serve.                                         *)
(***************************************************************************)
\* A Serve that waits to register: its listener is outside the tracker, open,
\* and in no Close's loop over the listeners; parked, it waits on the channel
\* of a Close that was in progress when it looked.
ParkedState ==
    \A l \in Listeners :
      /\ serve[l].pc \in {"track", "parked"} =>
           /\ l \notin listeners
           /\ ~serve[l].closed
           /\ \A c \in Closers : ~InDid(c, "listeners", l) /\ l \notin close[c].todo
      /\ serve[l].pc = "parked" =>
           /\ serve[l].waitOn \in Closers
           /\ serve[l].waitOn = closing \/ serve[l].waitOn \in chanClosed

\* Parking and waking leave the tracker and the wait group alone; waking
\* needs the channel closed and leads back to the look at closing; the
\* listener is registered only by a look that finds closing nil.
ParkedStep ==
    \A l \in Listeners :
      /\ serve[l].pc = "track" /\ serve'[l].pc # "track" =>
           IF closing # 0
           THEN /\ serve'[l].pc = "parked" /\ serve'[l].waitOn = closing
                /\ UNCHANGED <<listeners, conns, sessions, processes, wg, closing>>
           ELSE serve'[l].pc = "accept" /\ listeners' = listeners \cup {l} /\ wg' = wg + 1
      /\ serve[l].pc = "parked" /\ serve'[l].pc # "parked" =>
           /\ serve[l].waitOn \in chanClosed
           /\ serve'[l].pc = "track"
           /\ UNCHANGED <<listeners, conns, sessions, processes, wg, closing>>
      /\ l \in listeners' \ listeners => closing = 0 /\ closing' = 0 /\ serve[l].pc = "track"

\* C23: a Serve that comes to register its listener while a Close is in
\* progress parks without touching the tracker or the wait group, and
\* registers only after a look that finds closing nil, parking again when
\* another Close has begun meanwhile; the Close in progress does not close
\* its listener; and once the Close calls in progress have completed it is
\* registered, not left parked.
C23_ParkedServe ==
    /\ []ParkedState
    /\ [][ParkedStep]_vars
    /\ \A l \in Listeners : (serve[l].pc = "parked") ~> (l \in listeners)

C23_Witness ==
    \E l \in Listeners :
      /\ serve[l].pc = "parked"
      /\ serve[l].waitOn \in chanClosed
      /\ closing # 0 /\ closing # serve[l].waitOn

(***************************************************************************)
(* Properties of the task for signals and window changes.                  *)
(***************************************************************************)
\* All of a sequence but its last element.
Front(q) == SubSeq(q, 1, Len(q) - 1)

\* The task has returned exactly when both of its channel variables are nil;
\* a variable is nil only when its channel was closed and drained; every
\* signal and window change put into a channel is still in it or was
\* received, in order and once; every signal received has been given to the
\* process once, every window received has resized the PTY once, but for the
\* one the task is holding.
FanInState ==
    \A s \in Sessions :
      LET f == sess[s].fan IN
      /\ f.pc = "done" <=> f.sigs = "retired" /\ f.win = "retired"
      /\ f.sigs = "retired" => f.sigsClosed /\ f.sigsCh = <<>> /\ f.pc # "none"
      /\ f.win = "retired" => f.winClosed /\ f.winCh = <<>> /\ f.pc # "none"
      /\ f.sigOut = f.sigIn \o f.sigsCh
      /\ f.winOut = f.winIn \o f.winCh
      /\ proc[s].signals = IF f.pc = "gotSig" THEN Front(f.sigIn) ELSE f.sigIn
      /\ f.resized = IF f.pc = "gotWin" THEN Front(f.winIn) ELSE f.winIn
      /\ f.pc = "loop" /\ f.sigs = "live" /\ f.sigsCh # <<>> => ENABLED FanInReceiveSignal(s)
      /\ f.pc = "loop" /\ f.win = "live" /\ f.winCh # <<>> => ENABLED FanInReceiveWindow(s)
      /\ f.pc # "none" => (f.sigsClosed <=> sess[s].pc \notin {"ptyCopy", "ptyWait"})

\* Retiring one channel leaves the other as it was; the task returns only in
\* the step that retires the second one.
FanInStep ==
    \A s \in Sessions :
      LET f == sess[s].fan
          g == sess'[s].fan
      IN /\ g.sigs # f.sigs =>
              /\ g.sigs = "retired" /\ g.win = f.win /\ g.winCh = f.winCh
              /\ g.pc = IF f.win = "retired" THEN "done" ELSE "loop"
         /\ g.win # f.win =>
              /\ g.win = "retired" /\ g.sigs = f.sigs /\ g.sigsCh = f.sigsCh
              /\ g.pc = IF f.sigs = "retired" THEN "done" ELSE "loop"
         /\ g.pc = "done" /\ f.pc # "done" => g.sigs # f.sigs \/ g.win # f.win
         /\ f.pc = "done" => g = f

\* C24: the one task of a PTY session serves client signals and window
\* changes until both channels are closed: a closed channel retires that
\* source only and the other is still served; the task returns if and only if
\* both are retired; each signal received is given to the process exactly
\* once and each window change received resizes the PTY exactly once.
C24_FanIn ==
    []FanInState /\ [][FanInStep]_vars

C24_Witness ==
    \E s \in Sessions :
      /\ sess[s].fan.pc = "gotWin" /\ sess[s].fan.sigs = "retired"
      /\ Len(proc[s].signals) = 1 /\ sess[s].fan.sent = MaxEvents

(***************************************************************************)
(* Properties of the session close tracker.                                *)
(***************************************************************************)
\* The Exit and Close calls made on a session, in order.
Calls(r) == SelectSeq(r.log, LAMBDA e : e[1] \in {"exit", "close"})

\* What the first of them says: the code of an Exit, 1 for a Close.
FirstCallCode(r) ==
    IF Calls(r)[1][1] = "exit" THEN Calls(r)[1][2] ELSE 1

TrackerState ==
    \A s \in Sessions :
      LET r == sess[s] IN
      r.wrapped =>
        /\ r.exitOnce <=> Calls(r) # <<>>
        /\ Calls(r) # <<>> => r.code = FirstCallCode(r)
        /\ Calls(r) = <<>> => r.code = 0
        /\ Count(r, "disconnected") <= 1
        /\ Count(r, "disconnected") = 1 =>
             /\ Events(r, "disconnected")[1] = <<"disconnected", r.code, r.reason>>
             /\ Calls(r) # <<>> /\ Calls(r)[1][1] = "exit"
                  => Events(r, "disconnected")[1][2] = Events(r, "exit")[1][2]

\* Once a call has been made no step changes the recorded code.
TrackerStep ==
    \A s \in Sessions :
      sess[s].exitOnce => sess'[s].exitOnce /\ sess'[s].code = sess[s].code

\* C25: for every non-empty sequence of Exit(c) and Close calls on a session
\* close tracker the recorded code is that of the first call, c for Exit and
\* 1 for Close, and no later call changes it; disconnected is given the
\* recorded code, which is the first exit status emitted when the first call
\* was an Exit.
C25_FirstCodeKept ==
    []TrackerState /\ [][TrackerStep]_vars

C25_Witness ==
    \E s \in Sessions :
      /\ sess[s].pc = "done" /\ sess[s].wrapped
      /\ Calls(sess[s]) = << <<"close">>, <<"exit", 65>>, <<"exit", 1>> >>
      /\ Events(sess[s], "disconnected")[1][2] = 1
      /\ sess[s].code = 1

(***************************************************************************)
(* Properties of the banners and the MOTD.                                 *)
(***************************************************************************)
\* Everything written to the session, as one text.
RECURSIVE Joined(_)
Joined(texts) ==
    IF texts = <<>> THEN <<>> ELSE Head(texts) \o Joined(Tail(texts))

Output(r) ==
    Joined([i \in 1..Count(r, "write") |-> Events(r, "write")[i][2]])

\* What a banner looks like on the terminal: the one enabled banner with a
\* message, trimmed, its two lines and a blank line, each ended by CR LF.
Shown(banner) ==
    IF banner.Enabled /\ banner.Message = <<" ","a","\n","b">>
    THEN <<"a","\r","\n","b","\r","\n","\r","\n">>
    ELSE <<>>

ShownBanners(banners) ==
    Joined([i \in 1..Len(banners) |-> Shown(banners[i])])

\* The MOTD file's two lines, each ended by CR LF, when the file is
\* configured and there.
ShownMOTD(cfg) ==
    IF cfg.MOTDFile # <<>> /\ cfg.fs.MOTD.st = "present"
    THEN <<"m","\r","\n","n","\r","\n">>
    ELSE <<>>

\* The PTY runner is past its greeting, and no write of it failed.
Greeted(r) == r.pty /\ r.pc # "pty" /\ r.greetErrs = {}

\* .hushlogin is found in the home directory.
Hushed(cfg) == ~cfg.fs.HomeDirErr /\ cfg.fs.Hushlogin

\* C26 as stated: in a PTY session banners and MOTD are written only for a
\* login shell; in a login shell with .hushlogin in the home directory
\* neither a banner nor the MOTD is written; without it each enabled
\* non-empty banner is written in order, then the MOTD if one is configured.
C26_QuietLoginWritesNothing ==
    \A s \in Sessions :
      LET r == sess[s] IN
      Greeted(r) =>
        /\ r.rawCommand # <<>> => Output(r) = <<>>
        /\ r.rawCommand = <<>> /\ Hushed(config) => Output(r) = <<>>
        /\ r.rawCommand = <<>> /\ ~Hushed(config) =>
             Output(r) = ShownBanners(config.AnnouncementBanners) \o ShownMOTD(config)

\* C26: in a PTY session banners and MOTD are written only for a login
\* shell; in a login shell each enabled non-empty banner is written in order
\* whether or not .hushlogin exists; after the banners the MOTD is written if
\* a MOTD file is configured and exists, unless .hushlogin is found in the
\* home directory (a home directory that cannot be found counts as no
\* .hushlogin).
C26_BannersAlwaysMotdUnlessQuiet ==
    \A s \in Sessions :
      LET r == sess[s] IN
      Greeted(r) =>
        /\ r.rawCommand # <<>> => Output(r) = <<>>
        /\ r.rawCommand = <<>> =>
             Output(r) = ShownBanners(config.AnnouncementBanners)
                           \o (IF Hushed(config) THEN <<>> ELSE ShownMOTD(config))

C26_Witness ==
    \E s \in Sessions :
      /\ Greeted(sess[s]) /\ sess[s].rawCommand = <<>>
      /\ Hushed(config) /\ config.MOTDFile # <<>> /\ config.fs.MOTD.st = "present"
      /\ Len(config.AnnouncementBanners) = MaxBanners
      /\ Output(sess[s]) = <<"a","\r","\n","b","\r","\n","\r","\n">>

\* The session but for what was written to it and which greeting failed.
Outcome(r) == [r EXCEPT !.log = <<>>, !.greetErrs = {}]

\* The step of the PTY runner from its entry to the started process leaves
\* the session as a greeting without failure leaves it, and the process runs.
GreetingStep ==
    \A s \in Sessions :
      sess[s].pc = "pty" /\ sess'[s].pc # "pty" =>
        /\ Outcome(sess'[s]) = Outcome(PtyStarted(config, sess[s], TRUE, -1, -1))
        /\ sess'[s].pc = "ptyCopy"
        /\ proc[s].st = "none" /\ proc'[s].st = "running"

\* After a failed greeting the exit status is still the one the process and
\* the output copy decide.
GreetingState ==
    \A s \in Sessions :
      LET r == sess[s] IN
      r.pty /\ r.greetErrs # {} =>
        /\ r.pc = "pty" \/ proc[s].st # "none"
        /\ Finished(r) =>
             /\ Events(r, "exit") = << <<"exit", ExitStatus(r)>> >>
             /\ r.err = "nil" => proc[s].st = "exited" /\ proc[s].code = 0
             /\ r.err = "exit" => proc[s].st = "exited" /\ proc[s].code = r.exitErr
             /\ r.err = "other" => r.ctxDone \/ (proc[s].st = "exited" /\ proc[s].code = 0)

\* C27: a failure to write a banner or the MOTD does not change the outcome
\* of a PTY session: the process is started all the same, and the exit status
\* sent is the one the process and the output copy determine, as when the
\* writes succeed.
C27_GreetingFailureHarmless ==
    []GreetingState /\ [][GreetingStep]_vars

C27_Witness ==
    \E s \in Sessions :
      /\ sess[s].pc = "done" /\ sess[s].pty
      /\ sess[s].greetErrs = {"announcement_banner", "motd"}
      /\ proc[s].st = "exited" /\ proc[s].code = 65
      /\ Events(sess[s], "exit") = << <<"exit", 65>> >>

(***************************************************************************)
(* Properties of the builder on shebang scripts.                           *)
(***************************************************************************)
\* The session's handler is past sessionStart's call of CreateCommand.
PastBuilder(r) ==
    /\ r.subsystem = ""
    /\ r.pc \in {"pty", "ptyCopy", "ptyWait", "nonpty", "trackp", "wait", "untrackp",
                 "result", "panic", "disconnect", "uncount", "untrack", "done"}

\* C28: for every raw command whose trimmed text starts with "#!", also one
\* with no word after "#!", the builder returns: either a command, or a
\* create-command error that the dispatcher reports as exit 229; the handler
\* never ends in a run-time panic.
C28_ShebangBuilderReturns ==
    \A s \in Sessions :
      LET r == sess[s] IN
      HasPrefix(TrimSpace(r.rawCommand), <<"#","!">>) =>
        /\ r.pc # "panic"
        /\ PastBuilder(r) =>
             \/ r.cmd.st = "ok"
             \/ r.err = "other" /\ (Finished(r) => Events(r, "exit") = << <<"exit", 229>> >>)

(***************************************************************************)
(* Properties of Close's termination.                                      *)
(***************************************************************************)
\* C29: under fair scheduling, with handlers that return once what they
\* serve is closed and processes that end once signalled, every Close call
\* that has started returns, whatever Serve, the handlers and another Close
\* are doing.
C29_CloseReturns ==
    \A c \in Closers : (close[c].pc # "idle") ~> (close[c].pc = "done")

\* A Close waits on the wait group while a session's process is tracked and
\* running, and another Close waits for the first.
C29_Witness ==
    \E c, d \in Closers :
      /\ close[c].pc = "wait" /\ close[d].pc = "blocked"
      /\ wg > 0
      /\ \E s \in Sessions : s \in processes /\ proc[s].st = "running"

(***************************************************************************)
(* Properties of the end of Close.                                         *)
(***************************************************************************)
\* Nothing is registered and the wait group counts nothing.
NothingTracked ==
    /\ listeners = {} /\ conns = {} /\ sessions = {} /\ processes = {}
    /\ wg = 0

\* From the return of wg.Wait to the reset of closing nothing is registered.
ClearState ==
    \A c \in Closers : close[c].pc = "clear" => NothingTracked /\ closing = c

\* The step that resets closing starts and ends with nothing registered.
ClearStep ==
    \A c \in Closers :
      closing = c /\ closing' = 0 => NothingTracked /\ NothingTracked'

\* C30: when Close resets closing to nil, the listener, connection, session
\* and process sets are all empty and the wait-group counter is zero: nothing
\* that was tracked when Close began, or was rejected during it, is
\* registered when Close returns.
C30_NothingTrackedAtClear ==
    []ClearState /\ [][ClearStep]_vars

\* A Close that closed a listener, a session, a connection and a process it
\* found tracked is about to reset closing.
C30_Witness ==
    \E c \in Closers :
      /\ close[c].pc = "clear"
      /\ \A step \in {"listeners", "sessions", "conns", "processes"} :
           \E i \in 1..Len(close[c].did) : close[c].did[i] = <<step, 1>>
      /\ proc[1].hup = {"Close"}

(***************************************************************************)
(* Properties of the disconnected callback and Close.                      *)
(***************************************************************************)
\* The counter that counts sessions of r's type includes one at least, if
\* there is a counter for that type.
CounterIncludes(r, vscode, ssh) ==
    /\ r.magicType = MagicSessionTypeVSCode => vscode >= 1
    /\ r.magicType = MagicSessionTypeSSH => ssh >= 1

\* The step in which disconnected is called for an admitted session begins
\* and ends with the session in the tracker and in its counter; the
\* decrement and the removal come after it.
DisconnectedStep ==
    \A s \in Sessions :
      sess[s].admitted /\ Count(sess'[s], "disconnected") > Count(sess[s], "disconnected") =>
        /\ s \in sessions /\ s \in sessions'
        /\ CounterIncludes(sess[s], connCountVSCode, connCountSSHSession)
        /\ CounterIncludes(sess[s], connCountVSCode', connCountSSHSession')
        /\ sess[s].magicType \in {MagicSessionTypeVSCode, MagicSessionTypeSSH}
             => s \in Counted(sess[s].magicType)
        /\ sess'[s].pc = "uncount"

\* An admitted and reported session that is no longer in the tracker, or no
\* longer counted, has had its callback.
DisconnectedState ==
    \A s \in Sessions :
      LET r == sess[s] IN
      r.admitted /\ r.wrapped /\ (s \notin sessions \/ r.pc \in {"uncount", "untrack", "done"})
        => Count(r, "disconnected") = 1

\* When Close resets closing and returns, every admitted and reported
\* session has had its callback.
DisconnectedBeforeReturn ==
    \A c \in Closers :
      closing = c /\ closing' = 0 =>
        \A s \in Sessions :
          sess[s].admitted /\ sess[s].wrapped => Count(sess[s], "disconnected") = 1

\* C31: for every admitted and reported session disconnected is called while
\* the session is still in the session tracker and still counted by its
\* connection counter, before the decrement and the deregistration; so when
\* Close returns the callback of every session admitted before that Close
\* has been called.
C31_DisconnectedBeforeUntrack ==
    []DisconnectedState /\ [][DisconnectedStep /\ DisconnectedBeforeReturn]_vars

\* A Close waits on the wait group for a counted VS Code session whose
\* callback has just been called.
C31_Witness ==
    \E s \in Sessions, c \in Closers :
      /\ close[c].pc = "wait"
      /\ sess[s].admitted /\ sess[s].wrapped /\ sess[s].pc = "uncount"
      /\ sess[s].magicType = MagicSessionTypeVSCode
      /\ Count(sess[s], "disconnected") = 1
      /\ s \in sessions /\ connCountVSCode >= 1

(***************************************************************************)
(* Properties of a process that could not be tracked.                      *)
(***************************************************************************)
\* The runner of session s signalled its process itself: trackProcess had
\* refused it.
Untracked(s) == "handler" \in proc[s].hup

\* The step of trackProcess(p, true) while the server is closing: the
\* process is signalled at once, the tracker and the wait group are left as
\* they were, and the runner returns an error without a deferred removal.
TrackProcessFailStep ==
    \A s \in Sessions :
      sess[s].pc = "trackp" /\ sess'[s].pc # "trackp" /\ closing # 0 =>
        /\ proc[s].st \in {"running", "exited"}
        /\ Untracked(s)'
        /\ processes' = processes /\ wg' = wg /\ s \notin processes'
        /\ sess'[s].pc = "result" /\ sess'[s].err = "other"

\* An untracked process never enters or leaves the tracker afterwards.
UntrackedStep ==
    \A s \in Sessions :
      Untracked(s) =>
        /\ Untracked(s)'
        /\ s \notin processes'
        /\ sess'[s].pc \notin {"trackp", "wait", "untrackp"}

\* An untracked process is not in the tracker, its runner is past the
\* tracking with an error, and the exit status of its session is 229.
UntrackedState ==
    \A s \in Sessions :
      LET r == sess[s] IN
      Untracked(s) =>
        /\ ~r.pty /\ "process" \in r.started
        /\ s \notin processes
        /\ r.pc \in {"result", "disconnect", "uncount", "untrack", "done"}
        /\ r.err = "other"
        /\ Finished(r) => Events(r, "exit") = << <<"exit", MagicSessionErrorCode>> >>

\* C32: in a non-PTY session whose process has started, when registering the
\* process fails because the server is closing, the process is sent the
\* terminate signal at once, is never added to the tracker or the wait
\* group, is never deregistered, and the session ends with exit status 229.
C32_UntrackedProcessCancelled ==
    []UntrackedState /\ [][TrackProcessFailStep /\ UntrackedStep]_vars

\* A session whose process was refused by the tracker during a Close has
\* ended with exit status 229 after that Close returned.
C32_Witness ==
    \E s \in Sessions, c \in Closers :
      /\ Untracked(s) /\ sess[s].pc = "done"
      /\ Events(sess[s], "exit") = << <<"exit", 229>> >>
      /\ close[c].pc = "done" /\ close[c].ret # "server is closed"
      /\ \A i \in 1..Len(close[c].did) : close[c].did[i][1] # "processes"

====
